---- MODULE Spec2Model ----
(***************************************************************************)
(* Maze game engine (GameEngine, CollisionManager, Player, Ghost,           *)
(* InputHandler).                                                          *)
(*                                                                         *)
(* Lengths are integers in tenths of a pixel (12 px = 120), times are      *)
(* milliseconds.  With frame times that are multiples of 10 ms and speeds  *)
(* that are multiples of 10 px/s every product speed * deltaTime / 1000 is *)
(* a whole number of tenths, so the arithmetic of the code is exact.       *)
(* Math.random() is a value r/10 with r drawn from RandomTenths.           *)
(* The cosmetic state (mouth animation, maze colour) is not modelled.      *)
(***************************************************************************)
EXTENDS Integers, Sequences, FiniteSets, TLC

\* ------------------------------------------------------------------ bounds
\* frame callbacks explored per behaviour
MaxFrames == 2
\* frame callbacks explored after a call of restart() or initialize()
MaxFramesAfterStart == 1
\* calls of restart() and initialize() explored per behaviour
MaxStarts == 1
\* deferred direction resets of touchend that can be pending at once
MaxResetTimers == 2
\* wrong guesses explored in the guessing game
MaxGuesses == 5
\* calls of MindEngine.init explored per behaviour
MaxInits == 3
\* ghosts in a frame whose position sweep is called directly
MaxSweepGhosts == 4
\* the coordinates 0..MaxCoord of the boxes handed to checkCollision directly
MaxCoord == 2
\* the longest ghost list handed to checkPlayerGhostCollisions directly
MaxListLen == 3

\* ------------------------------------------------------- program constants
CanvasWidth == 8000
CanvasHeight == 6000
MazeCols == 15
MazeRows == 13
EntitySize == 120
PlayerWidth == 120
PlayerHeight == 120
GhostWidth == 120
GhostHeight == 120
PlayerSpeed == 200
GhostSpeed == 150
GhostBaseSpeed == 150
SpeedStep == 20
HitboxReduction == 20
MaxDeltaTime == 50
DifficultyInterval == 30000
GracePeriodStart == 3000
GracePeriodEscalation == 1500
MaxGhosts == 8
InitialGhostCount == 4
ProximityThreshold == 1000
SafeSpawnDistance == 1500
MinSafetyScore == 3
DirectionChangeBase == 2000
DirectionChangeJitter == 2000
MinSwipeDistance == 20

\* raw frame times handed to gameLoop by the scheduler (ms)
DeltaTimes == {20, 120}
\* values r of Math.random() = r / 10
RandomTenths == {0, 5}
\* the values of Math.random() during one createEntities(): one for the
\* player's position, then two for each ghost
SpawnDraws ==
  { [ i \in 1..(1 + 2 * 4) |-> 0 ],
    [ i \in 1..(1 + 2 * 4) |-> 5 ],
    [ i \in 1..(1 + 2 * 4) |-> IF i % 2 = 1 THEN 0 ELSE 5 ],
    [ i \in 1..(1 + 2 * 4) |-> IF i % 2 = 1 THEN 5 ELSE 0 ] }
\* InputHandler.getDirection()
Directions == { <<0, 0>>, <<1, 0>>, <<-1, 0>>, <<0, 1>>, <<0, -1>> }

Min(a, b) == IF a < b THEN a ELSE b
Max(a, b) == IF a > b THEN a ELSE b

\* ------------------------------------------------------------------- maze
MazeGrid ==
  << <<1, 1, 1, 1, 1, 1, 1, 1, 1, 1, 1, 1, 1, 1, 1>>,
     <<1, 0, 0, 0, 0, 0, 0, 1, 0, 0, 0, 0, 0, 0, 1>>,
     <<1, 0, 1, 1, 0, 1, 0, 1, 0, 1, 0, 1, 1, 0, 1>>,
     <<1, 0, 0, 0, 0, 1, 0, 0, 0, 1, 0, 0, 0, 0, 1>>,
     <<1, 0, 1, 1, 0, 1, 1, 1, 1, 1, 0, 1, 1, 0, 1>>,
     <<1, 0, 0, 0, 0, 0, 0, 1, 0, 0, 0, 0, 0, 0, 1>>,
     <<1, 1, 0, 1, 0, 1, 0, 1, 0, 1, 0, 1, 0, 1, 1>>,
     <<1, 0, 0, 1, 0, 1, 0, 1, 0, 1, 0, 1, 0, 0, 1>>,
     <<1, 0, 1, 1, 0, 1, 0, 0, 0, 1, 0, 1, 1, 0, 1>>,
     <<1, 0, 0, 0, 0, 1, 0, 1, 0, 1, 0, 0, 0, 0, 1>>,
     <<1, 0, 1, 1, 0, 1, 0, 1, 0, 1, 0, 1, 1, 0, 1>>,
     <<1, 0, 0, 0, 0, 0, 0, 1, 0, 0, 0, 0, 0, 0, 1>>,
     <<1, 1, 1, 1, 1, 1, 1, 1, 1, 1, 1, 1, 1, 1, 1>> >>

\* grid[row][col] with the 0-based indices of the code
Cell(grid, row, col) == grid[row + 1][col + 1]

\* initializeMaze(dimensions)
initializeMaze(width, height) ==
  LET cellSize == Min(width, height) \div 15
  IN  [ grid     |-> MazeGrid,
        cellSize |-> cellSize,
        offsetX  |-> (width - (MazeCols * cellSize)) \div 2,
        offsetY  |-> (height - (MazeRows * cellSize)) \div 2 ]

Maze == initializeMaze(CanvasWidth, CanvasHeight)

\* gameState.maze before initializeMaze has run: null
NoMaze == [ grid |-> << >>, cellSize |-> 0, offsetX |-> 0, offsetY |-> 0 ]

\* Math.floor((p - offset) / cellSize)
GridIndex(p, offset, cellSize) == (p - offset) \div cellSize

\* the wall test of one sampled point in isValidMove
IsWallPoint(m, px, py) ==
  LET gridCol == GridIndex(px, m.offsetX, m.cellSize)
      gridRow == GridIndex(py, m.offsetY, m.cellSize)
  IN  /\ gridRow >= 0 /\ gridRow < MazeRows
      /\ gridCol >= 0 /\ gridCol < MazeCols
      /\ Cell(m.grid, gridRow, gridCol) = 1

\* the 8 sampled points of the box at (newX, newY): 4 corners, 4 midpoints
SamplePoints(newX, newY, w, h) ==
  LET left == newX
      right == newX + w
      top == newY
      bottom == newY + h
  IN  { <<left, top>>, <<right, top>>, <<left, bottom>>, <<right, bottom>>,
        <<(left + right) \div 2, top>>, <<(left + right) \div 2, bottom>>,
        <<left, (top + bottom) \div 2>>, <<right, (top + bottom) \div 2>> }

\* a variant that keeps the box the wall buffer (15% of the cell size) away
\* from walls, to try the properties against
isValidMoveBuffered(m, x, y, dx, dy, distance) ==
  LET newX == x + dx * distance
      newY == y + dy * distance
      buffer == (m.cellSize * 15) \div 100
  IN  /\ \A pt \in SamplePoints(newX - buffer, newY - buffer,
                                 PlayerWidth + 2 * buffer, PlayerHeight + 2 * buffer) :
            ~IsWallPoint(m, pt[1], pt[2])
      /\ newX >= 0
      /\ newX + PlayerWidth <= CanvasWidth
      /\ newY >= 0
      /\ newY + PlayerHeight <= CanvasHeight

\* a variant that refuses every move while there is no maze, to try the
\* properties against
isValidMoveNeedsMaze(m, x, y, dx, dy, distance) ==
  LET newX == x + dx * distance
      newY == y + dy * distance
  IN  /\ m # NoMaze
      /\ \A pt \in SamplePoints(newX, newY, PlayerWidth, PlayerHeight) :
            ~IsWallPoint(m, pt[1], pt[2])
      /\ newX >= 0
      /\ newX + PlayerWidth <= CanvasWidth
      /\ newY >= 0
      /\ newY + PlayerHeight <= CanvasHeight

\* a variant that looks at the canvas edges only, to try the properties against
isValidMoveInCanvas(m, x, y, dx, dy, distance) ==
  LET newX == x + dx * distance
      newY == y + dy * distance
  IN  /\ newX >= 0
      /\ newX + PlayerWidth <= CanvasWidth
      /\ newY >= 0
      /\ newY + PlayerHeight <= CanvasHeight

\* isValidMove(position, direction, distance), player present
isValidMove(m, x, y, dx, dy, distance) ==
  LET newX == x + dx * distance
      newY == y + dy * distance
  IN  \/ m = NoMaze
      \/ /\ \A pt \in SamplePoints(newX, newY, PlayerWidth, PlayerHeight) :
               ~IsWallPoint(m, pt[1], pt[2])
         /\ newX >= 0
         /\ newX + PlayerWidth <= CanvasWidth
         /\ newY >= 0
         /\ newY + PlayerHeight <= CanvasHeight

\* isEntityInValidPosition(entity)
isEntityInValidPosition(m, x, y, w, h) ==
  \/ m = NoMaze
  \/ LET gridCol == GridIndex(x + (w \div 2), m.offsetX, m.cellSize)
         gridRow == GridIndex(y + (h \div 2), m.offsetY, m.cellSize)
     IN  /\ ~(gridRow < 0 \/ gridRow >= MazeRows \/ gridCol < 0 \/ gridCol >= MazeCols)
         /\ Cell(m.grid, gridRow, gridCol) = 0

\* ------------------------------------------------------- spawn positions
\* the orthogonal neighbours of (row, col) that are not walls
SafetyScore(grid, row, col) ==
  (IF Cell(grid, row - 1, col) = 1 THEN 0 ELSE 1) +
  (IF Cell(grid, row + 1, col) = 1 THEN 0 ELSE 1) +
  (IF Cell(grid, row, col + 1) = 1 THEN 0 ELSE 1) +
  (IF Cell(grid, row, col - 1) = 1 THEN 0 ELSE 1)

\* isPositionInsideValidPath(row, col, grid)
isPositionInsideValidPath(grid, row, col) ==
  /\ Cell(grid, row, col) = 0
  /\ \/ (row > 0 /\ Cell(grid, row - 1, col) = 0)
     \/ (row < MazeRows - 1 /\ Cell(grid, row + 1, col) = 0)
     \/ (col > 0 /\ Cell(grid, row, col - 1) = 0)
     \/ (col < MazeCols - 1 /\ Cell(grid, row, col + 1) = 0)

\* a variant that leaves out half the cell size, to try the properties against
CellPositionAtCorner(m, row, col, safetyScore) ==
  [ x |-> m.offsetX + col * m.cellSize - (EntitySize \div 2),
    y |-> m.offsetY + row * m.cellSize - (EntitySize \div 2),
    row |-> row, col |-> col, safetyScore |-> safetyScore ]

\* the position record pushed for a cell: the entity centred in the cell
CellPosition(m, row, col, safetyScore) ==
  [ x |-> m.offsetX + col * m.cellSize + (m.cellSize \div 2) - (EntitySize \div 2),
    y |-> m.offsetY + row * m.cellSize + (m.cellSize \div 2) - (EntitySize \div 2),
    row |-> row, col |-> col, safetyScore |-> safetyScore ]

\* the cells a scan visits, row by row: rows firstRow..lastRow, columns
\* firstCol..lastCol
ScanOrder(firstRow, lastRow, firstCol, lastCol) ==
  LET width == lastCol - firstCol + 1
  IN  [ k \in 1..((lastRow - firstRow + 1) * width) |->
          [ row |-> firstRow + ((k - 1) \div width),
            col |-> firstCol + ((k - 1) % width) ] ]

\* the strict scan: interior cells that are paths with safetyScore >= 3
StrictScan(m) ==
  LET cells == ScanOrder(1, MazeRows - 2, 1, MazeCols - 2)
      kept == SelectSeq(cells, LAMBDA c :
                /\ Cell(m.grid, c.row, c.col) = 0
                /\ SafetyScore(m.grid, c.row, c.col) >= MinSafetyScore)
  IN  [ k \in 1..Len(kept) |->
          CellPosition(m, kept[k].row, kept[k].col,
                       SafetyScore(m.grid, kept[k].row, kept[k].col)) ]

\* the lenient scan: every path cell with a path neighbour, safetyScore 0
LenientScan(m) ==
  LET cells == ScanOrder(0, MazeRows - 1, 0, MazeCols - 1)
      kept == SelectSeq(cells, LAMBDA c :
                /\ Cell(m.grid, c.row, c.col) = 0
                /\ isPositionInsideValidPath(m.grid, c.row, c.col))
  IN  [ k \in 1..Len(kept) |-> CellPosition(m, kept[k].row, kept[k].col, 0) ]

\* positions.sort((a, b) => b.safetyScore - a.safetyScore): stable, descending
\* (a safetyScore is one of 0..4)
SortByScore(positions) ==
  SelectSeq(positions, LAMBDA p : p.safetyScore = 4)
    \o SelectSeq(positions, LAMBDA p : p.safetyScore = 3)
    \o SelectSeq(positions, LAMBDA p : p.safetyScore = 2)
    \o SelectSeq(positions, LAMBDA p : p.safetyScore = 1)
    \o SelectSeq(positions, LAMBDA p : p.safetyScore = 0)

\* getMazePositions(dimensions)
getMazePositions(m) ==
  IF m = NoMaze THEN << >>
  ELSE LET strict == StrictScan(m)
       IN  IF Len(strict) > 0 THEN SortByScore(strict) ELSE LenientScan(m)

MazePositions == getMazePositions(Maze)

\* Math.floor(Math.random() * n) for Math.random() = r / 10, 0-based
RandomIndex(r, n) == (r * n) \div 10

\* getRandomPosition(positions): the 1-based index of the chosen element
getRandomPosition(positions, r) == RandomIndex(r, Len(positions)) + 1

\* the sequence without its i-th element: positions.splice(i, 1)
Splice(seq, i) == SubSeq(seq, 1, i - 1) \o SubSeq(seq, i + 1, Len(seq))

\* Math.sqrt(dx^2 + dy^2) < d for whole numbers
DistanceBelow(x1, y1, x2, y2, d) ==
  (x1 - x2) * (x1 - x2) + (y1 - y2) * (y1 - y2) < d * d

\* Math.sqrt(dx^2 + dy^2) > d
DistanceAbove(x1, y1, x2, y2, d) ==
  (x1 - x2) * (x1 - x2) + (y1 - y2) * (y1 - y2) > d * d

\* ------------------------------------------------------------- collisions
\* a variant with twice the hitbox reduction, to try the properties against
getBoundsNarrow(x, y, w, h) ==
  [ left   |-> x + 2 * HitboxReduction,
    right  |-> x + w - 2 * HitboxReduction,
    top    |-> y + 2 * HitboxReduction,
    bottom |-> y + h - 2 * HitboxReduction ]

\* Player.getBounds / Ghost.getBounds
getBounds(x, y, w, h) ==
  [ left   |-> x + HitboxReduction,
    right  |-> x + w - HitboxReduction,
    top    |-> y + HitboxReduction,
    bottom |-> y + h - HitboxReduction ]

\* a variant whose first comparison is strict, to try the properties against
checkCollisionLeftStrict(bounds1, bounds2) ==
  /\ bounds1.left < bounds2.right
  /\ bounds1.right >= bounds2.left
  /\ bounds1.top <= bounds2.bottom
  /\ bounds1.bottom >= bounds2.top

\* a variant in which touching boxes do not collide, to try the properties against
checkCollisionStrict(bounds1, bounds2) ==
  /\ bounds1.left < bounds2.right
  /\ bounds1.right > bounds2.left
  /\ bounds1.top < bounds2.bottom
  /\ bounds1.bottom > bounds2.top

\* CollisionManager.checkCollision(bounds1, bounds2)
checkCollision(bounds1, bounds2) ==
  /\ bounds1.left <= bounds2.right
  /\ bounds1.right >= bounds2.left
  /\ bounds1.top <= bounds2.bottom
  /\ bounds1.bottom >= bounds2.top

\* CollisionManager.checkCollision(object1, object2) of the revision that
\* takes x, y, width, height
checkCollisionObjects(object1, object2) ==
  /\ object1.x <= object2.x + object2.width
  /\ object1.x + object1.width >= object2.x
  /\ object1.y <= object2.y + object2.height
  /\ object1.y + object1.height >= object2.y

\* the x, y, width, height object that covers a bounds object
ToObject(b) ==
  [ x |-> b.left, y |-> b.top, width |-> b.right - b.left, height |-> b.bottom - b.top ]

GhostBounds(g) == getBounds(g.x, g.y, GhostWidth, GhostHeight)
PlayerBounds(p) == getBounds(p.x, p.y, PlayerWidth, PlayerHeight)

\* a variant that returns the last colliding ghost, to try the properties against
FindLast(playerBounds, ghostBounds) ==
  LET n == Len(ghostBounds)
      upto[i \in 0..n] ==
        IF i = 0 THEN 0
        ELSE IF checkCollision(playerBounds, ghostBounds[i]) THEN i
        ELSE upto[i - 1]
  IN  upto[n]

\* ghosts.find(...) over a list of bounds: the index of the first ghost
\* whose bounds collide with playerBounds, 0 for undefined
Find(playerBounds, ghostBounds) ==
  LET n == Len(ghostBounds)
      from[i \in 1..(n + 1)] ==
        IF i > n THEN 0
        ELSE IF checkCollision(playerBounds, ghostBounds[i]) THEN i
        ELSE from[i + 1]
  IN  from[1]

\* CollisionManager.checkPlayerGhostCollisions(player, ghosts)
checkPlayerGhostCollisions(p, gs) ==
  Find(PlayerBounds(p), [i \in 1..Len(gs) |-> GhostBounds(gs[i])])

\* ------------------------------------------------------------------ player
\* variants to try the properties against: a distance in whole pixels, and a
\* clamp that forgets the lower edge
DistanceWholePixels(speed, deltaTime) == ((speed * deltaTime) \div 1000) * 10

ClampAbove(v, limit) == Min(v, limit)

\* speed * (deltaTime / 1000) pixels, in tenths of a pixel
Distance(speed, deltaTime) == (speed * deltaTime) \div 100

\* Math.max(0, Math.min(v, limit))
Clamp(v, limit) == Max(0, Min(v, limit))

\* a variant that moves only when the whole step is valid, to try the
\* properties against
PlayerUpdateWholeStep(m, p, direction, deltaTime) ==
  LET normalized == Min(deltaTime, MaxDeltaTime)
      distance == Distance(PlayerSpeed, normalized)
      moves == /\ isValidMove(m, p.x, p.y, direction[1], 0, distance)
               /\ isValidMove(m, p.x, p.y, 0, direction[2], distance)
  IN  [ x |-> Clamp(IF moves THEN p.x + direction[1] * distance ELSE p.x,
                    CanvasWidth - PlayerWidth),
        y |-> Clamp(IF moves THEN p.y + direction[2] * distance ELSE p.y,
                    CanvasHeight - PlayerHeight) ]

\* Player.update(direction, deltaTime): the position part
PlayerUpdate(m, p, direction, deltaTime) ==
  LET normalized == Min(deltaTime, MaxDeltaTime)
      distance == Distance(PlayerSpeed, normalized)
      x1 == IF direction[1] # 0 /\ isValidMove(m, p.x, p.y, direction[1], 0, distance)
            THEN p.x + direction[1] * distance ELSE p.x
      y1 == IF direction[2] # 0 /\ isValidMove(m, x1, p.y, 0, direction[2], distance)
            THEN p.y + direction[2] * distance ELSE p.y
  IN  [ x |-> Clamp(x1, CanvasWidth - PlayerWidth),
        y |-> Clamp(y1, CanvasHeight - PlayerHeight) ]

\* Player.update(direction, deltaTime) without window.GameEngine: the
\* position part
PlayerUpdateAlone(p, direction, deltaTime) ==
  LET normalized == Min(deltaTime, MaxDeltaTime)
      distance == Distance(PlayerSpeed, normalized)
  IN  [ x |-> Clamp(p.x + direction[1] * distance, CanvasWidth - PlayerWidth),
        y |-> Clamp(p.y + direction[2] * distance, CanvasHeight - PlayerHeight) ]

\* ------------------------------------------------------------------- ghost
PossibleDirections == << <<1, 0>>, <<-1, 0>>, <<0, 1>>, <<0, -1>> >>

\* a variant that keeps the reverse of the current direction among the
\* candidates, to try the properties against
AvailableDirectionsWithReverse(m, g) ==
  SelectSeq(PossibleDirections,
            LAMBDA d : isValidMove(m, g.x, g.y, d[1], d[2], g.speed \div 2))

\* the candidates of chooseNewDirection: not the reverse of the current
\* direction, and walkable for the probe distance speed * 0.05
AvailableDirections(m, g) ==
  SelectSeq(PossibleDirections,
            LAMBDA d : /\ ~(d[1] = -g.dx /\ d[2] = -g.dy)
                       /\ isValidMove(m, g.x, g.y, d[1], d[2], g.speed \div 2))

\* a variant that keeps the current direction when no candidate is walkable,
\* to try the properties against
chooseNewDirectionOrKeep(m, g, r) ==
  LET availableDirections == AvailableDirections(m, g)
  IN  IF Len(availableDirections) > 0
      THEN LET d == availableDirections[RandomIndex(r, Len(availableDirections)) + 1]
           IN  [g EXCEPT !.dx = d[1], !.dy = d[2]]
      ELSE g

\* Ghost.chooseNewDirection() with Math.random() = r / 10
chooseNewDirection(m, g, r) ==
  LET availableDirections == AvailableDirections(m, g)
      d == IF Len(availableDirections) > 0
           THEN availableDirections[RandomIndex(r, Len(availableDirections)) + 1]
           ELSE PossibleDirections[RandomIndex(r, Len(PossibleDirections)) + 1]
  IN  [g EXCEPT !.dx = d[1], !.dy = d[2]]

\* new Ghost(type, position): speed, timer, and the initial direction
NewGhost(m, x, y, r) ==
  chooseNewDirection(m, [ x |-> x, y |-> y, dx |-> 0, dy |-> 0,
                          speed |-> GhostSpeed, directionTimer |-> 0 ], r)

\* this.directionTimer > 2000 + Math.random() * 2000
TimerElapsed(directionTimer, r) ==
  directionTimer * 10 > DirectionChangeBase * 10 + r * DirectionChangeJitter

\* a variant that keeps the move isValidMove accepted, wherever it leads, to
\* try the properties against
GhostMoveWithoutRollback(m, g, deltaTime, r1) ==
  LET distance == Distance(g.speed, deltaTime)
      dx == g.dx * distance
      dy == g.dy * distance
  IN  IF isValidMove(m, g.x, g.y, g.dx, g.dy, distance)
      THEN [g EXCEPT !.x = g.x + dx, !.y = g.y + dy,
                     !.directionTimer = g.directionTimer + deltaTime]
      ELSE [chooseNewDirection(m, g, r1) EXCEPT !.directionTimer = 0]

\* Ghost.update(deltaTime), first part: the move, or the new direction
\* (drawn with Math.random() = r1 / 10) when the move is refused
GhostMove(m, g, deltaTime, r1) ==
  LET distance == Distance(g.speed, deltaTime)
      dx == g.dx * distance
      dy == g.dy * distance
      canMove == /\ isValidMove(m, g.x, g.y, g.dx, g.dy, distance)
                 /\ isEntityInValidPosition(m, g.x + dx, g.y + dy, GhostWidth, GhostHeight)
  IN  IF canMove
      THEN [g EXCEPT !.x = g.x + dx, !.y = g.y + dy,
                     !.directionTimer = g.directionTimer + deltaTime]
      ELSE [chooseNewDirection(m, g, r1) EXCEPT !.directionTimer = 0]

\* Ghost.update(deltaTime), second part: the periodic direction change of the
\* ghost `moved` the first part left; dx and dy were computed from g
GhostTurn(m, g, moved, deltaTime, r2, r3) ==
  LET distance == Distance(g.speed, deltaTime)
      shouldChangeDirection ==
        \/ TimerElapsed(moved.directionTimer, r2)
        \/ (g.dx * distance = 0 /\ g.dy * distance = 0)
  IN  IF shouldChangeDirection
      THEN [chooseNewDirection(m, moved, r3) EXCEPT !.directionTimer = 0]
      ELSE moved

\* Ghost.update(deltaTime); r1, r2, r3 are the three values of Math.random()
GhostUpdate(m, g, deltaTime, r1, r2, r3) ==
  GhostTurn(m, g, GhostMove(m, g, deltaTime, r1), deltaTime, r2, r3)

\* the candidates of chooseNewDirection when window.GameEngine is not there:
\* every direction but the reverse of the current one
AvailableDirectionsAlone(g) ==
  SelectSeq(PossibleDirections, LAMBDA d : ~(d[1] = -g.dx /\ d[2] = -g.dy))

\* Ghost.chooseNewDirection() when window.GameEngine is not there
chooseNewDirectionAlone(g, r) ==
  LET availableDirections == AvailableDirectionsAlone(g)
      d == IF Len(availableDirections) > 0
           THEN availableDirections[RandomIndex(r, Len(availableDirections)) + 1]
           ELSE PossibleDirections[RandomIndex(r, Len(PossibleDirections)) + 1]
  IN  [g EXCEPT !.dx = d[1], !.dy = d[2]]

\* a variant whose boundary test forgets the ghost's width and height, to try
\* the properties against
GhostMoveAloneByOrigin(g, deltaTime, r1) ==
  LET distance == Distance(g.speed, deltaTime)
      newX == g.x + g.dx * distance
      newY == g.y + g.dy * distance
      wouldHitBoundary == \/ newX < 0
                          \/ newY < 0
                          \/ newX > CanvasWidth
                          \/ newY > CanvasHeight
  IN  IF wouldHitBoundary
      THEN [chooseNewDirectionAlone(g, r1) EXCEPT !.directionTimer = 0]
      ELSE [g EXCEPT !.x = newX, !.y = newY,
                     !.directionTimer = g.directionTimer + deltaTime]

\* Ghost.update(deltaTime) when window.GameEngine is not there, first part:
\* the move, or the new direction when the move would leave the canvas
GhostMoveAlone(g, deltaTime, r1) ==
  LET distance == Distance(g.speed, deltaTime)
      newX == g.x + g.dx * distance
      newY == g.y + g.dy * distance
      wouldHitBoundary == \/ newX < 0
                          \/ newY < 0
                          \/ newX + GhostWidth > CanvasWidth
                          \/ newY + GhostHeight > CanvasHeight
  IN  IF wouldHitBoundary
      THEN [chooseNewDirectionAlone(g, r1) EXCEPT !.directionTimer = 0]
      ELSE [g EXCEPT !.x = newX, !.y = newY,
                     !.directionTimer = g.directionTimer + deltaTime]

\* Ghost.update(deltaTime) when window.GameEngine is not there, second part
GhostTurnAlone(g, moved, deltaTime, r2, r3) ==
  LET distance == Distance(g.speed, deltaTime)
      shouldChangeDirection ==
        \/ TimerElapsed(moved.directionTimer, r2)
        \/ (g.dx * distance = 0 /\ g.dy * distance = 0)
  IN  IF shouldChangeDirection
      THEN [chooseNewDirectionAlone(moved, r3) EXCEPT !.directionTimer = 0]
      ELSE moved

\* Ghost.update(deltaTime) when window.GameEngine is not there
GhostUpdateAlone(g, deltaTime, r1, r2, r3) ==
  GhostTurnAlone(g, GhostMoveAlone(g, deltaTime, r1), deltaTime, r2, r3)

\* the results of Ghost.update over the values Math.random() can take
GhostUpdates(m, g, deltaTime) ==
  UNION { { GhostTurn(m, g, moved, deltaTime, r2, r3) :
              r2 \in RandomTenths, r3 \in RandomTenths } :
          moved \in { GhostMove(m, g, deltaTime, r1) : r1 \in RandomTenths } }

\* ------------------------------------------------------------------- input
\* event.key of a keyboard event: the four arrows and one other key
Keys == { "ArrowUp", "ArrowDown", "ArrowLeft", "ArrowRight", "Enter" }

\* a touch event: clientX and clientY of the first touch in px, the number of
\* touches, and whether the target is the canvas or inside it
TouchEvents == [ x : {0, 15, 30, 60}, y : {0, 15, 30, 60},
                 touches : {1, 2}, onCanvas : BOOLEAN ]

Abs(v) == IF v < 0 THEN -v ELSE v

\* variants to try the properties against: a keydown that writes its own
\* axis only, and a keyup that clears the direction whatever it is
keydownHandlerOwnAxis(d, key) ==
  CASE key = "ArrowUp" -> <<d[1], -1>>
    [] key = "ArrowDown" -> <<d[1], 1>>
    [] key = "ArrowLeft" -> <<-1, d[2]>>
    [] key = "ArrowRight" -> <<1, d[2]>>
    [] OTHER -> d

keyupHandlerAnyDirection(d, key) ==
  IF key \in { "ArrowUp", "ArrowDown", "ArrowLeft", "ArrowRight" }
  THEN <<0, 0>> ELSE d

\* keydownHandler(event): the direction after it, from the direction d before
keydownHandler(d, key) ==
  CASE key = "ArrowUp" -> <<0, -1>>
    [] key = "ArrowDown" -> <<0, 1>>
    [] key = "ArrowLeft" -> <<-1, 0>>
    [] key = "ArrowRight" -> <<1, 0>>
    [] OTHER -> d

\* keyupHandler(event): the direction after it, from the direction d before
keyupHandler(d, key) ==
  CASE key = "ArrowUp" -> IF d[2] = -1 THEN <<d[1], 0>> ELSE d
    [] key = "ArrowDown" -> IF d[2] = 1 THEN <<d[1], 0>> ELSE d
    [] key = "ArrowLeft" -> IF d[1] = -1 THEN <<0, d[2]>> ELSE d
    [] key = "ArrowRight" -> IF d[1] = 1 THEN <<0, d[2]>> ELSE d
    [] OTHER -> d

\* touchstartHandler(event) on the module state st
touchstartHandler(st, e) ==
  IF e.touches = 1 /\ e.onCanvas
  THEN [st EXCEPT !.touchStartX = e.x, !.touchStartY = e.y, !.touchActive = TRUE]
  ELSE st

\* touchmoveHandler(event) on the module state st
touchmoveHandler(st, e) ==
  LET diffX == e.x - st.touchStartX
      diffY == e.y - st.touchStartY
  IN  IF ~st.touchActive \/ e.touches # 1
      THEN st
      ELSE IF Abs(diffX) > MinSwipeDistance \/ Abs(diffY) > MinSwipeDistance
           THEN [st EXCEPT
                   !.direction = IF Abs(diffX) > Abs(diffY)
                                 THEN <<IF diffX > 0 THEN 1 ELSE -1, 0>>
                                 ELSE <<0, IF diffY > 0 THEN 1 ELSE -1>>,
                   !.touchStartX = e.x,
                   !.touchStartY = e.y]
           ELSE st

\* touchendHandler(event) on the module state st; the setTimeout it makes is
\* one more pending reset
touchendHandler(st, e) ==
  IF ~st.touchActive
  THEN st
  ELSE [st EXCEPT !.touchActive = FALSE, !.resetTimers = @ + 1]

\* the callback of the setTimeout of touchendHandler
resetCallback(st) ==
  [ (IF ~st.touchActive THEN [st EXCEPT !.direction = <<0, 0>>] ELSE st)
      EXCEPT !.resetTimers = @ - 1 ]

\* a touch handler is registered on the canvas and on document.body: an event
\* whose target is the canvas runs it twice, any other event once
Listeners(e) == IF e.onCanvas THEN 2 ELSE 1

\* ------------------------------------------------------------------ engine
VARIABLES
  isRunning,            \* gameState.isRunning
  isGameOver,           \* gameState.isGameOver
  score,                \* gameState.score
  difficultyLevel,      \* gameState.difficultyLevel
  difficultyTimer,      \* gameState.difficultyTimer
  gracePeriod,          \* gameState.gracePeriod
  gracePeriodMax,       \* gameState.gracePeriodMax
  player,               \* gameState.player: [x, y]
  ghosts,               \* gameState.ghosts: sequence of [x, y, dx, dy, speed, directionTimer]
  rafPending,           \* gameLoop callbacks registered with requestAnimationFrame
  collidedGhost,        \* gameLoop's collidedGhost in the last frame: index in ghosts, 0 for undefined
  normalizedDeltaTime,  \* gameLoop's normalizedDeltaTime in the last frame
  lastFrameTime,        \* gameState.lastFrameTime: 0, or 1 for a timestamp
  rendered,             \* whether the handler that ran last called render()
  frames,               \* frame callbacks counted against MaxFrames
  starts,               \* restart() and initialize() calls so far
  op,                   \* the handler or function that ran last
  boundsA,              \* first argument of a direct call of checkCollision
  boundsB,              \* second argument of that call
  collides,             \* what that call returned
  collidesObjects,      \* what the x/y/width/height revision returned for the same boxes
  args,                 \* the arguments of a direct call of a maze, player or ghost function
  result,               \* what that call returned or left
  inputDirection,       \* InputHandler's direction: <<x, y>>
  touchStartX,          \* InputHandler's touchStartX
  touchStartY,          \* InputHandler's touchStartY
  touchActive,          \* InputHandler's touchActive
  resetTimers           \* callbacks of touchend's setTimeout not yet run

engineVars == << isRunning, isGameOver, score, difficultyLevel, difficultyTimer,
                 gracePeriod, gracePeriodMax, player, ghosts, rafPending,
                 collidedGhost, normalizedDeltaTime, lastFrameTime, rendered,
                 frames, starts >>

collisionVars == << boundsA, boundsB, collides, collidesObjects >>

moveVars == << args, result >>

inputVars == << inputDirection, touchStartX, touchStartY, touchActive, resetTimers >>

\* what the engine's handlers leave alone
callVars == << collisionVars, moveVars, inputVars >>

vars == << engineVars, callVars, op >>

\* a variant that marks the player's position only, to try the properties
\* against
UsedIndicesOfPlayer(positions, playerIndex) == {playerIndex}

\* the indices createEntities marks as used: the player's position and the
\* positions closer to it than the proximity threshold
UsedIndices(positions, playerIndex) ==
  {playerIndex} \cup
  { i \in 1..Len(positions) :
      /\ i # playerIndex
      /\ DistanceBelow(positions[i].x, positions[i].y,
                       positions[playerIndex].x, positions[playerIndex].y,
                       ProximityThreshold) }

\* mazePositions.filter((_, index) => !usedIndices.includes(index))
FilterUnused(positions, usedIndices) ==
  LET n == Len(positions)
      from[i \in 1..(n + 1)] ==
        IF i > n THEN << >>
        ELSE IF i \notin usedIndices THEN <<positions[i]>> \o from[i + 1]
        ELSE from[i + 1]
  IN  from[1]

\* the positions of createEntities that are not too close to the player
AvailablePositions(positions, playerIndex) ==
  FilterUnused(positions, UsedIndices(positions, playerIndex))

\* the ghost loop of createEntities for the values rs of Math.random():
\* rs[2k] picks the position of ghost k, rs[2k + 1] its first direction
PlaceGhosts(m, availablePositions, n, rs) ==
  LET after[k \in 0..n] ==
        IF k = 0 THEN [ ghosts |-> << >>, available |-> availablePositions ]
        ELSE LET st == after[k - 1]
             IN  IF Len(st.available) = 0 THEN st
                 ELSE LET i == getRandomPosition(st.available, rs[2 * k])
                      IN  [ ghosts    |-> Append(st.ghosts,
                                                 NewGhost(m, st.available[i].x, st.available[i].y,
                                                          rs[2 * k + 1])),
                            available |-> Splice(st.available, i) ]
  IN  after[n].ghosts

\* createEntities() for the values rs of Math.random(): rs[1] picks the
\* player's position
createEntities(m, mazePositions, rs) ==
  IF Len(mazePositions) > 0
  THEN LET playerIndex == getRandomPosition(mazePositions, rs[1])
           availablePositions == AvailablePositions(mazePositions, playerIndex)
           ghostCount == Min(InitialGhostCount, Len(availablePositions))
       IN  [ player |-> [ x |-> mazePositions[playerIndex].x,
                          y |-> mazePositions[playerIndex].y ],
             ghosts |-> PlaceGhosts(m, availablePositions, ghostCount, rs) ]
  ELSE [ player |-> [ x |-> (CanvasWidth \div 2) - (PlayerWidth \div 2),
                      y |-> (CanvasHeight \div 2) - (PlayerHeight \div 2) ],
         ghosts |-> << NewGhost(m, CanvasWidth \div 4, CanvasHeight \div 4, rs[3]) >> ]

\* the ghost loop of validateEntityPositions: the ghost lists it can leave
ValidateGhosts(m, validPositions, gs) ==
  LET after[i \in 0..Len(gs)] ==
        IF i = 0 THEN { [ ghosts |-> gs, valid |-> validPositions ] }
        ELSE UNION {
               IF isEntityInValidPosition(m, st.ghosts[i].x, st.ghosts[i].y,
                                          GhostWidth, GhostHeight)
               THEN { st }
               ELSE IF Len(st.valid) > 0
               THEN { LET k == getRandomPosition(st.valid, r)
                      IN  [ ghosts |-> [st.ghosts EXCEPT ![i].x = st.valid[k].x,
                                                         ![i].y = st.valid[k].y],
                            valid  |-> Splice(st.valid, k) ] :
                        r \in RandomTenths }
               ELSE { [ st EXCEPT !.ghosts[i].x = -1000, !.ghosts[i].y = -1000 ] } :
               st \in after[i - 1] }
  IN  { st.ghosts : st \in after[Len(gs)] }

\* a variant that repairs the ghosts only, to try the properties against
validateEntityPositionsOfGhosts(m, validPositions, p, gs) ==
  { [ player |-> p, ghosts |-> gs2 ] : gs2 \in ValidateGhosts(m, validPositions, gs) }

\* validateEntityPositions(): the [player, ghosts] it can leave
validateEntityPositions(m, validPositions, p, gs) ==
  IF Len(validPositions) = 0 THEN { [ player |-> p, ghosts |-> gs ] }
  ELSE IF isEntityInValidPosition(m, p.x, p.y, PlayerWidth, PlayerHeight)
  THEN { [ player |-> p, ghosts |-> gs2 ] :
           gs2 \in ValidateGhosts(m, validPositions, gs) }
  ELSE UNION { LET k == getRandomPosition(validPositions, r)
               IN  { [ player |-> [ x |-> validPositions[k].x, y |-> validPositions[k].y ],
                       ghosts |-> gs2 ] :
                       gs2 \in ValidateGhosts(m, Splice(validPositions, k), gs) } :
               r \in RandomTenths }

\* ghost.speed = ghost.baseSpeed + (difficultyLevel - 1) * 20
SpeedAtLevel(level) == GhostBaseSpeed + (level - 1) * SpeedStep

\* a variant that adds a ghost parked off-screen, to try the properties against
addGhostParked(m, validPositions, p, gs, level) ==
  { Append(gs, [NewGhost(m, -1000, -1000, 0) EXCEPT !.speed = SpeedAtLevel(level)]) }

\* addGhost(): the ghost lists it can leave
addGhost(m, validPositions, p, gs, level) ==
  IF Len(validPositions) > 0
  THEN LET safePositions ==
             SelectSeq(validPositions,
                       LAMBDA pos : DistanceAbove(pos.x, pos.y, p.x, p.y, SafeSpawnDistance))
           positionsToUse == IF Len(safePositions) > 0 THEN safePositions ELSE validPositions
       IN  { LET position == positionsToUse[RandomIndex(r1, Len(positionsToUse)) + 1]
             IN  Append(gs, [NewGhost(m, position.x, position.y, r2)
                               EXCEPT !.speed = SpeedAtLevel(level)]) :
               r1 \in RandomTenths, r2 \in RandomTenths }
  ELSE { gs }

\* a variant that still adds a ghost to a list of MaxGhosts, to try the
\* properties against
ShouldAddGhostAtCap(level, count) == level % 2 = 0 /\ count <= MaxGhosts

\* gameState.difficultyLevel % 2 === 0 && gameState.ghosts.length < 8
ShouldAddGhost(level, count) == level % 2 = 0 /\ count < MaxGhosts

\* a variant that adds the step to the speed each ghost has, to try the
\* properties against
SetSpeedsByStep(gs, level) ==
  [ i \in 1..Len(gs) |-> [gs[i] EXCEPT !.speed = @ + SpeedStep] ]

\* gameState.ghosts.forEach(ghost => { ghost.speed = ghost.baseSpeed + ... })
SetSpeeds(gs, level) ==
  [ i \in 1..Len(gs) |-> [gs[i] EXCEPT !.speed = SpeedAtLevel(level)] ]

\* increaseDifficulty(): the [level, player, ghosts] it can leave
increaseDifficulty(m, validPositions, level, p, gs) ==
  LET level1 == level + 1
      added == IF ShouldAddGhost(level1, Len(gs))
               THEN addGhost(m, validPositions, p, gs, level1)
               ELSE { gs }
  IN  UNION { LET faster == SetSpeeds(gs1, level1)
              IN  { [ level |-> level1, player |-> v.player, ghosts |-> v.ghosts ] :
                      v \in validateEntityPositions(m, validPositions, p, faster) } :
              gs1 \in added }

\* createEntities() followed by validateEntityPositions(), as initialize()
\* and restart() call them
FreshEntities ==
  UNION { LET e == createEntities(Maze, MazePositions, rs)
          IN  validateEntityPositions(Maze, MazePositions, e.player, e.ghosts) :
            rs \in SpawnDraws }

\* ---------------------------------------------------------- the frame loop
\* Math.min(deltaTime, 50)
ClampDelta(deltaTime) == Min(deltaTime, MaxDeltaTime)

\* timestamp - (gameState.lastFrameTime || timestamp): the frame times the
\* scheduler can produce; a second pending callback runs in the same
\* animation frame as the first, with the same timestamp
FrameDeltas(last, pending) ==
  IF last = 0 THEN {0}
  ELSE IF pending > 1 THEN DeltaTimes \cup {0}
  ELSE DeltaTimes

\* Math.random() < 0.05
ShouldValidatePositions(r) == r * 100 < 5 * 10

\* a variant that ends the grace period in one frame, to try the properties
\* against
GraceCountdownAtOnce(grace, deltaTime) == 0

\* the grace period countdown of a frame that began with gracePeriod > 0
GraceCountdown(grace, deltaTime) ==
  IF grace - deltaTime <= 0 THEN 0 ELSE grace - deltaTime

\* variants that check collisions in every frame, and only below zero, to
\* try the properties against
CollisionsCheckedAlways(grace) == TRUE
CollisionsCheckedBelowZero(grace) == grace < 0

\* the else branch of gameLoop's "if (gameState.gracePeriod > 0)"
CollisionsChecked(grace) == ~(grace > 0)

\* a variant that is due only past the interval, to try the properties against
DifficultyDueStrict(timer) == timer > DifficultyInterval

\* gameState.difficultyTimer >= gameState.difficultyInterval
DifficultyDue(timer) == timer >= DifficultyInterval

\* Math.round(a / b) for a >= 0, b > 0
Round(a, b) == (2 * a + b) \div (2 * b)

\* the score added by one frame
ScoreIncrement(direction, deltaTime, level) ==
  IF direction[1] # 0 \/ direction[2] # 0
  THEN Round(deltaTime, 10) * level
  ELSE Round(deltaTime, 50)

\* ghost.update followed by the in-frame repair of one ghost
GhostFrameSteps(m, validPositions, g, deltaTime, shouldValidate) ==
  UNION { IF /\ shouldValidate
             /\ ~isEntityInValidPosition(m, g1.x, g1.y, GhostWidth, GhostHeight)
             /\ Len(validPositions) > 0
          THEN { LET k == getRandomPosition(validPositions, r)
                 IN  [g1 EXCEPT !.x = validPositions[k].x, !.y = validPositions[k].y] :
                   r \in RandomTenths }
          ELSE { g1 } :
          g1 \in GhostUpdates(m, g, deltaTime) }

\* gameState.ghosts.forEach(...) of gameLoop: the ghost lists it can leave
GhostsFrameSteps(m, validPositions, gs, deltaTime, shouldValidate) ==
  LET after[i \in 0..Len(gs)] ==
        IF i = 0 THEN { << >> }
        ELSE { Append(done, g1) :
                 done \in after[i - 1],
                 g1 \in GhostFrameSteps(m, validPositions, gs[i], deltaTime, shouldValidate) }
  IN  after[Len(gs)]

\* player.update followed by the in-frame repair of the player
PlayerFrameSteps(m, validPositions, p, direction, deltaTime, shouldValidate) ==
  LET p1 == PlayerUpdate(m, p, direction, deltaTime)
  IN  IF /\ shouldValidate
         /\ ~isEntityInValidPosition(m, p1.x, p1.y, PlayerWidth, PlayerHeight)
         /\ Len(validPositions) > 0
      THEN { LET k == getRandomPosition(validPositions, r)
             IN  [ x |-> validPositions[k].x, y |-> validPositions[k].y ] :
               r \in RandomTenths }
      ELSE { p1 }


\* a variant that leaves the loop running, to try the properties against
gameOverKeepsRunning == [ isGameOver |-> TRUE, isRunning |-> isRunning ]

\* gameOver(ghost): the flags it sets
gameOver == [ isGameOver |-> TRUE, isRunning |-> FALSE ]

\* a variant in which the collision check reads the entities as the frame
\* found them, to try the properties against
CheckedEntitiesBeforeUpdates(before, after) == before

\* the entities the collision check of a frame reads: gameState.player and
\* gameState.ghosts as the updates above it left them
CheckedEntities(before, after) == after

\* a variant that draws in every frame callback, to try the properties against
FrameRendersAlways(running) == TRUE

\* whether a frame callback reaches its call of render(): only if it found
\* the engine running
FrameRenders(running) == running

\* gameLoop(timestamp)
GameLoop ==
  /\ rafPending > 0
  /\ op' = "gameLoop"
  /\ rendered' = FrameRenders(isRunning)
  /\ UNCHANGED << starts, callVars >>
  /\ IF ~isRunning
     THEN /\ rafPending' = rafPending - 1
          /\ collidedGhost' = 0
          /\ normalizedDeltaTime' = 0
          /\ UNCHANGED << isRunning, isGameOver, score, difficultyLevel, difficultyTimer,
                          gracePeriod, gracePeriodMax, player, ghosts, lastFrameTime,
                          frames >>
     ELSE /\ frames < MaxFrames
          /\ frames' = frames + 1
          /\ \E deltaTime \in FrameDeltas(lastFrameTime, rafPending), rv \in RandomTenths :
              LET dt == ClampDelta(deltaTime)
                  shouldValidate == ShouldValidatePositions(rv)
              IN
              \E ghosts1 \in GhostsFrameSteps(Maze, MazePositions, ghosts, dt, shouldValidate),
                 direction \in Directions :
              \E player1 \in PlayerFrameSteps(Maze, MazePositions, player, direction, dt, shouldValidate) :
              LET seen == CheckedEntities([ player |-> player, ghosts |-> ghosts ],
                                          [ player |-> player1, ghosts |-> ghosts1 ])
                  hit == IF CollisionsChecked(gracePeriod)
                         THEN checkPlayerGhostCollisions(seen.player, seen.ghosts)
                         ELSE 0
                  flags == IF hit # 0 THEN gameOver
                           ELSE [ isGameOver |-> isGameOver, isRunning |-> isRunning ]
                  grace1 == IF CollisionsChecked(gracePeriod)
                            THEN gracePeriod
                            ELSE GraceCountdown(gracePeriod, dt)
                  timer1 == difficultyTimer + dt
              IN
              \E esc \in IF DifficultyDue(timer1)
                         THEN increaseDifficulty(Maze, MazePositions, difficultyLevel, player1, ghosts1)
                         ELSE { [ level |-> difficultyLevel, player |-> player1, ghosts |-> ghosts1 ] } :
                /\ lastFrameTime' = 1
                /\ normalizedDeltaTime' = dt
                /\ collidedGhost' = hit
                /\ isGameOver' = flags.isGameOver
                /\ isRunning' = flags.isRunning
                /\ difficultyLevel' = esc.level
                /\ difficultyTimer' = IF DifficultyDue(timer1) THEN 0 ELSE timer1
                /\ gracePeriod' = IF DifficultyDue(timer1) THEN GracePeriodEscalation ELSE grace1
                /\ gracePeriodMax' = IF DifficultyDue(timer1) THEN GracePeriodEscalation
                                     ELSE gracePeriodMax
                /\ player' = esc.player
                /\ ghosts' = esc.ghosts
                /\ score' = score + ScoreIncrement(direction, dt, esc.level)
                /\ rafPending' = IF flags.isGameOver THEN rafPending - 1 ELSE rafPending

\* a variant that keeps the score, to try the properties against
RestartKeepsScore ==
  [ isGameOver      |-> FALSE,
    score           |-> score,
    difficultyLevel |-> 1,
    difficultyTimer |-> 0,
    gracePeriod     |-> GracePeriodStart,
    gracePeriodMax  |-> GracePeriodStart ]

\* the fields restart() resets before it recreates the entities
RestartReset ==
  [ isGameOver      |-> FALSE,
    score           |-> 0,
    difficultyLevel |-> 1,
    difficultyTimer |-> 0,
    gracePeriod     |-> GracePeriodStart,
    gracePeriodMax  |-> GracePeriodStart ]

\* restart()
Restart ==
  /\ starts < MaxStarts
  /\ starts' = starts + 1
  /\ op' = "restart"
  /\ isGameOver' = RestartReset.isGameOver
  /\ score' = RestartReset.score
  /\ difficultyLevel' = RestartReset.difficultyLevel
  /\ difficultyTimer' = RestartReset.difficultyTimer
  /\ gracePeriod' = RestartReset.gracePeriod
  /\ gracePeriodMax' = RestartReset.gracePeriodMax
  /\ \E e \in FreshEntities :
       /\ player' = e.player
       /\ ghosts' = e.ghosts
  /\ isRunning' = TRUE
  /\ rendered' = TRUE
  /\ lastFrameTime' = IF ~isRunning THEN 1 ELSE lastFrameTime
  /\ rafPending' = IF ~isRunning THEN rafPending + 1 ELSE rafPending
  /\ frames' = MaxFrames - MaxFramesAfterStart
  /\ UNCHANGED << collidedGhost, normalizedDeltaTime, callVars >>

\* what initialize(assets) does to the engine
initialize ==
  /\ starts < MaxStarts
  /\ starts' = starts + 1
  /\ isRunning' = TRUE
  /\ isGameOver' = FALSE
  /\ rendered' = TRUE
  /\ lastFrameTime' = 0
  /\ score' = 0
  /\ difficultyLevel' = 1
  /\ difficultyTimer' = 0
  /\ gracePeriod' = GracePeriodStart
  /\ gracePeriodMax' = GracePeriodStart
  /\ \E e \in FreshEntities :
       /\ player' = e.player
       /\ ghosts' = e.ghosts
  /\ rafPending' = rafPending + 1
  /\ frames' = MaxFrames - MaxFramesAfterStart
  /\ UNCHANGED << collidedGhost, normalizedDeltaTime >>

\* initialize(assets), called again by the engine switcher
Initialize ==
  /\ op' = "initialize"
  /\ initialize
  /\ UNCHANGED callVars

Next == GameLoop \/ Restart \/ Initialize

\* ------------------------------------------------------------ initial states
\* A running game at level 1 just after a frame with deltaTime 0 (every ghost
\* has then chosen a direction and reset its directionTimer): difficultyTimer
\* ms of frames have been played without moving (score 0), the player stands
\* on the spawn cell of row 1, column 4, the first ghost is `offset` to its
\* right in the same corridor heading left, the others are far away; `pending`
\* frame callbacks are registered (2 after the switcher started the game twice).
Checkpoints == { [ timer |-> 2950, offset |-> 75, pending |-> 2 ],
                 [ timer |-> 29950, offset |-> 150, pending |-> 1 ] }

CheckpointPlayer == [ x |-> CellPosition(Maze, 1, 4, 3).x, y |-> CellPosition(Maze, 1, 4, 3).y ]

CheckpointGhosts(offset) ==
  << [ x |-> CheckpointPlayer.x + offset, y |-> CheckpointPlayer.y,
       dx |-> -1, dy |-> 0, speed |-> GhostSpeed, directionTimer |-> 0 ],
     NewGhost(Maze, CellPosition(Maze, 9, 4, 3).x, CellPosition(Maze, 9, 4, 3).y, 0),
     NewGhost(Maze, CellPosition(Maze, 9, 10, 3).x, CellPosition(Maze, 9, 10, 3).y, 0),
     NewGhost(Maze, CellPosition(Maze, 11, 10, 3).x, CellPosition(Maze, 11, 10, 3).y, 0) >>

\* the state initialize() leaves
InitFresh ==
  /\ \E e \in FreshEntities :
       /\ player = e.player
       /\ ghosts = e.ghosts
  /\ difficultyTimer = 0
  /\ gracePeriod = GracePeriodStart
  /\ lastFrameTime = 0
  /\ rafPending = 1
  /\ frames = MaxFrames - MaxFramesAfterStart

\* the same game some frames later
InitCheckpoint ==
  \E c \in Checkpoints :
    /\ player = CheckpointPlayer
    /\ ghosts = CheckpointGhosts(c.offset)
    /\ difficultyTimer = c.timer
    /\ gracePeriod = Max(0, GracePeriodStart - c.timer)
    /\ lastFrameTime = 1
    /\ rafPending = c.pending
    /\ frames = 0

\* no direct call of checkCollision has been made
NoCollisionCall ==
  /\ boundsA = getBounds(0, 0, PlayerWidth, PlayerHeight)
  /\ boundsB = getBounds(0, 0, GhostWidth, GhostHeight)
  /\ collides = FALSE
  /\ collidesObjects = FALSE

\* no direct call of a maze, player or ghost function has been made
NoMoveCall ==
  /\ args = << >>
  /\ result = << >>

\* InputHandler as its module scope leaves it: no key held, no touch begun
InputIdle ==
  /\ inputDirection = <<0, 0>>
  /\ touchStartX = 0
  /\ touchStartY = 0
  /\ touchActive = FALSE
  /\ resetTimers = 0

\* nothing but the engine has been exercised
NoCall == NoCollisionCall /\ NoMoveCall /\ InputIdle

InitEngine ==
  /\ isRunning = TRUE
  /\ isGameOver = FALSE
  /\ score = 0
  /\ difficultyLevel = 1
  /\ gracePeriodMax = GracePeriodStart
  /\ collidedGhost = 0
  /\ normalizedDeltaTime = 0
  /\ rendered = TRUE
  /\ starts = 0
  /\ op = "initialize"
  /\ (InitFresh \/ InitCheckpoint)

Init == InitEngine /\ NoCall

Spec == Init /\ [][Next]_vars

\* -------------------------------------------- the game after an escalation
\* A running game at level 2, difficultyTimer ms of frames after the
\* escalation: the grace period the escalation granted has been counted down
\* by those frames, the ghosts have the speed of the level and the one the
\* escalation added stands far from the player; or the level 1 game one frame
\* before the escalation.
InitGrace ==
  /\ NoCall
  /\ \/ /\ InitEngine
        /\ difficultyTimer >= DifficultyInterval - MaxDeltaTime
     \/ /\ isRunning = TRUE
        /\ isGameOver = FALSE
        /\ score = 0
        /\ difficultyLevel = 2
        /\ gracePeriodMax = GracePeriodEscalation
        /\ collidedGhost = 0
        /\ normalizedDeltaTime = 0
        /\ rendered = TRUE
        /\ starts = 0
        /\ op = "gameLoop"
        /\ lastFrameTime = 1
        /\ rafPending = 1
        /\ frames = 0
        /\ player = CheckpointPlayer
        /\ \E offset \in {75, 150} :
             ghosts = SetSpeeds(Append(CheckpointGhosts(offset),
                                       NewGhost(Maze, CellPosition(Maze, 11, 4, 3).x,
                                                CellPosition(Maze, 11, 4, 3).y, 0)), 2)
        /\ difficultyTimer \in {1400, 1450, 1480, 1500}
        /\ gracePeriod = Max(0, GracePeriodEscalation - difficultyTimer)

SpecGrace == InitGrace /\ [][Next]_vars

\* ------------------------------------------------- the game along the walls
\* A running game at level 1 some frames later: the player has walked up the
\* spawn cell of row 1, column 4 to the wall above it (or to 2 px from it),
\* the second ghost has walked right in the cell of row 9, column 4 to 0.1 px
\* or 1 px from the wall, and the fourth stands in the lower right corner of
\* the cell of row 11, column 13, heading down.
InitWalls ==
  /\ NoCall
  /\ isRunning = TRUE
  /\ isGameOver = FALSE
  /\ score = 0
  /\ difficultyLevel = 1
  /\ gracePeriodMax = GracePeriodStart
  /\ collidedGhost = 0
  /\ normalizedDeltaTime = 0
  /\ rendered = TRUE
  /\ starts = 0
  /\ op = "gameLoop"
  /\ lastFrameTime = 1
  /\ rafPending = 1
  /\ frames = 0
  /\ difficultyTimer \in {2950, 29950}
  /\ gracePeriod = Max(0, GracePeriodStart - difficultyTimer)
  /\ \E gap \in {0, 20} :
       player = [ x |-> CheckpointPlayer.x, y |-> Maze.offsetY + Maze.cellSize + gap ]
  /\ \E gap \in {1, 10} :
       ghosts = << CheckpointGhosts(150)[1],
                   [ x |-> Maze.offsetX + 5 * Maze.cellSize - GhostWidth - gap,
                     y |-> CellPosition(Maze, 9, 4, 3).y,
                     dx |-> 1, dy |-> 0, speed |-> GhostSpeed, directionTimer |-> 100 ],
                   CheckpointGhosts(150)[3],
                   [ x |-> Maze.offsetX + 14 * Maze.cellSize - GhostWidth - gap,
                     y |-> Maze.offsetY + 12 * Maze.cellSize - GhostHeight - gap,
                     dx |-> 0, dy |-> 1, speed |-> GhostSpeed, directionTimer |-> 100 ] >>

SpecWalls == InitWalls /\ [][Next]_vars

\* ------------------------------------------------------ the engine switcher
\* switchMultiverse(gameName, actuallyStart); args.currentEngine is the
\* switcher's currentEngine.  The maze engine exports no stop, so the stop of
\* the current engine is skipped or is another engine's.
SwitchMultiverse ==
  \E gameName \in { "adventure", "invaders", "mind" }, actuallyStart \in BOOLEAN :
    /\ op' = "switchMultiverse"
    /\ args' = [ currentEngine |-> IF actuallyStart THEN gameName
                                   ELSE args.currentEngine ]
    /\ IF actuallyStart /\ gameName = "adventure"
       THEN initialize
       ELSE UNCHANGED engineVars
    /\ UNCHANGED << collisionVars, inputVars, result >>

\* the maze game started by the switcher
InitSwitcher ==
  /\ InitEngine
  /\ NoCollisionCall
  /\ InputIdle
  /\ args = [ currentEngine |-> "adventure" ]
  /\ result = << >>

SpecSwitcher == InitSwitcher /\ [][GameLoop \/ SwitchMultiverse]_vars

\* ------------------------------------------- the collision functions alone
\* a game that is running, with no frame callback and no start explored
EngineIdle ==
  /\ isRunning = TRUE
  /\ isGameOver = FALSE
  /\ score = 0
  /\ difficultyLevel = 1
  /\ difficultyTimer = 0
  /\ gracePeriod = GracePeriodStart
  /\ gracePeriodMax = GracePeriodStart
  /\ collidedGhost = 0
  /\ normalizedDeltaTime = 0
  /\ rendered = TRUE
  /\ lastFrameTime = 1
  /\ rafPending = 1
  /\ frames = MaxFrames
  /\ starts = MaxStarts
  /\ op = "initialize"
  /\ player = CheckpointPlayer

\* the bounds objects with coordinates in 0..MaxCoord
Boxes == [ left : 0..MaxCoord, right : 0..MaxCoord, top : 0..MaxCoord, bottom : 0..MaxCoord ]

\* CollisionManager.checkCollision(boundsA, boundsB), called directly
CheckCollision ==
  /\ op' = "checkCollision"
  /\ collides' = checkCollision(boundsA, boundsB)
  /\ collidesObjects' = checkCollisionObjects(ToObject(boundsA), ToObject(boundsB))
  /\ UNCHANGED << engineVars, boundsA, boundsB, moveVars, inputVars >>

InitCollision ==
  /\ EngineIdle
  /\ ghosts = CheckpointGhosts(150)
  /\ boundsA \in Boxes
  /\ boundsB \in Boxes
  /\ collides = FALSE
  /\ collidesObjects = FALSE
  /\ NoMoveCall
  /\ InputIdle

SpecCollision == InitCollision /\ [][CheckCollision]_vars

\* where a ghost of a directly checked list stands, relative to the player:
\* on it, touching its right edge, one pixel clear of it, touching its top edge
ListOffsets == { <<0, 0>>, <<80, 0>>, <<90, 0>>, <<0, -80>> }

ListGhosts ==
  { [ x |-> CheckpointPlayer.x + o[1], y |-> CheckpointPlayer.y + o[2],
      dx |-> -1, dy |-> 0, speed |-> GhostSpeed, directionTimer |-> 0 ] : o \in ListOffsets }

\* CollisionManager.checkPlayerGhostCollisions(player, ghosts), called directly
CheckPlayerGhostCollisions ==
  /\ op' = "checkPlayerGhostCollisions"
  /\ collidedGhost' = checkPlayerGhostCollisions(player, ghosts)
  /\ UNCHANGED << isRunning, isGameOver, score, difficultyLevel, difficultyTimer,
                  gracePeriod, gracePeriodMax, player, ghosts, rafPending,
                  normalizedDeltaTime, lastFrameTime, rendered, frames, starts, callVars >>

InitList ==
  /\ EngineIdle
  /\ ghosts \in UNION { [ 1..n -> ListGhosts ] : n \in 0..MaxListLen }
  /\ NoCall

SpecList == InitList /\ [][CheckPlayerGhostCollisions]_vars

\* ------------------------------------------------ the ghost's functions alone
\* cells a directly updated ghost stands in: a corner, junctions, corridors
ProbeCells == { <<1, 1>>, <<1, 4>>, <<3, 4>>, <<2, 1>>, <<7, 2>>, <<5, 6>> }

\* where in its cell the ghost stands: centred, or against an edge of the cell
ProbeOffsets == { -140, 0, 140 }

\* the positions of a directly updated ghost: in the probe cells, and in the
\* corners of the canvas
GhostPositions ==
  { [ x |-> CellPosition(Maze, c[1], c[2], 0).x + ox,
      y |-> CellPosition(Maze, c[1], c[2], 0).y + oy ] :
      c \in ProbeCells, ox \in ProbeOffsets, oy \in ProbeOffsets }
  \cup { [ x |-> x, y |-> y ] : x \in {0, CanvasWidth - GhostWidth},
                                y \in {0, CanvasHeight - GhostHeight} }

\* the directionTimer values of a directly updated ghost
GhostTimers == { 0, DirectionChangeBase - 10, DirectionChangeBase + 500 }

\* the deltaTime values of a direct Ghost.update
GhostDeltaTimes == { 0, 20, 1000 }

\* the values r / 10 of Math.random() in a direct call
CallRandoms == { 0, 5, 9 }

\* the ghosts a direct call is made on, the direction <<0, 0>> of a ghost
\* under construction included
CallGhosts ==
  { [ x |-> pos.x, y |-> pos.y, dx |-> d[1], dy |-> d[2],
      speed |-> speed, directionTimer |-> t ] :
      pos \in GhostPositions, d \in Directions, t \in GhostTimers,
      speed \in { GhostSpeed, GhostSpeed + 4 * SpeedStep } }

\* ghost.chooseNewDirection(), called directly
ChooseNewDirection ==
  /\ op' = "chooseNewDirection"
  /\ result' = IF args.engine
               THEN chooseNewDirection(Maze, args.g, args.r3)
               ELSE chooseNewDirectionAlone(args.g, args.r3)
  /\ UNCHANGED << engineVars, collisionVars, inputVars, args >>

\* ghost.update(deltaTime), called directly
UpdateGhost ==
  /\ op' = "Ghost.update"
  /\ result' = IF args.engine
               THEN GhostUpdate(Maze, args.g, args.deltaTime, args.r1, args.r2, args.r3)
               ELSE GhostUpdateAlone(args.g, args.deltaTime, args.r1, args.r2, args.r3)
  /\ UNCHANGED << engineVars, collisionVars, inputVars, args >>

InitGhost ==
  /\ EngineIdle
  /\ ghosts = CheckpointGhosts(150)
  /\ NoCollisionCall
  /\ InputIdle
  /\ args \in [ g : CallGhosts, deltaTime : GhostDeltaTimes, engine : BOOLEAN,
                 r1 : {0, 5}, r2 : {0, 5}, r3 : CallRandoms ]
  /\ result = << >>

SpecGhost == InitGhost /\ [][ChooseNewDirection \/ UpdateGhost]_vars

\* ------------------------------------------------------- isValidMove alone
\* the width and height of the entity that asks for the move: the player's,
\* or those of a ghost drawn from a smaller or a larger image
MoverSizes == { 80, PlayerWidth, 180 }

\* GameEngine.isValidMove(position, direction, distance), called directly
\* for a mover of size args.size
IsValidMove ==
  /\ op' = "isValidMove"
  /\ result' = isValidMove(Maze, args.x, args.y, args.dx, args.dy, args.distance)
  /\ UNCHANGED << engineVars, collisionVars, inputVars, args >>

InitMove ==
  /\ EngineIdle
  /\ ghosts = CheckpointGhosts(150)
  /\ NoCollisionCall
  /\ InputIdle
  /\ \E pos \in GhostPositions, d \in Directions, distance \in {0, 40, 75, 100},
        size \in MoverSizes :
       args = [ x |-> pos.x, y |-> pos.y, dx |-> d[1], dy |-> d[2],
                distance |-> distance, size |-> size ]
  /\ result = << >>

SpecMove == InitMove /\ [][IsValidMove]_vars

\* ------------------------------------------------------------ InputHandler
\* the module state of InputHandler as one record
InputState ==
  [ direction |-> inputDirection, touchStartX |-> touchStartX,
    touchStartY |-> touchStartY, touchActive |-> touchActive,
    resetTimers |-> resetTimers ]

\* the module state of InputHandler becomes st
SetInput(st) ==
  /\ inputDirection' = st.direction
  /\ touchStartX' = st.touchStartX
  /\ touchStartY' = st.touchStartY
  /\ touchActive' = st.touchActive
  /\ resetTimers' = st.resetTimers

KeyDown ==
  \E key \in Keys :
    /\ op' = "keydown"
    /\ args' = [ key |-> key ]
    /\ inputDirection' = keydownHandler(inputDirection, key)
    /\ UNCHANGED << engineVars, collisionVars, result,
                    touchStartX, touchStartY, touchActive, resetTimers >>

KeyUp ==
  \E key \in Keys :
    /\ op' = "keyup"
    /\ args' = [ key |-> key ]
    /\ inputDirection' = keyupHandler(inputDirection, key)
    /\ UNCHANGED << engineVars, collisionVars, result,
                    touchStartX, touchStartY, touchActive, resetTimers >>

TouchStart ==
  \E e \in TouchEvents :
    /\ op' = "touchstart"
    /\ args' = << >>
    /\ SetInput(IF Listeners(e) = 2
                THEN touchstartHandler(touchstartHandler(InputState, e), e)
                ELSE touchstartHandler(InputState, e))
    /\ UNCHANGED << engineVars, collisionVars, result >>

TouchMove ==
  \E e \in TouchEvents :
    /\ op' = "touchmove"
    /\ args' = << >>
    /\ SetInput(IF Listeners(e) = 2
                THEN touchmoveHandler(touchmoveHandler(InputState, e), e)
                ELSE touchmoveHandler(InputState, e))
    /\ UNCHANGED << engineVars, collisionVars, result >>

TouchEnd ==
  \E e \in TouchEvents :
    /\ touchActive => resetTimers < MaxResetTimers
    /\ op' = "touchend"
    /\ args' = << >>
    /\ SetInput(IF Listeners(e) = 2
                THEN touchendHandler(touchendHandler(InputState, e), e)
                ELSE touchendHandler(InputState, e))
    /\ UNCHANGED << engineVars, collisionVars, result >>

\* a pending setTimeout of touchendHandler fires
ResetTimer ==
  /\ resetTimers > 0
  /\ op' = "reset"
  /\ args' = << >>
  /\ SetInput(resetCallback(InputState))
  /\ UNCHANGED << engineVars, collisionVars, result >>

InitInput ==
  /\ EngineIdle
  /\ ghosts = CheckpointGhosts(150)
  /\ NoCall

NextInput == KeyDown \/ KeyUp \/ TouchStart \/ TouchMove \/ TouchEnd \/ ResetTimer

SpecInput == InitInput /\ [][NextInput]_vars

\* ----------------------------------------------------- Player.update alone
\* Player.update(direction, deltaTime), called directly, with and without
\* window.GameEngine
UpdatePlayer ==
  /\ op' = "Player.update"
  /\ result' = IF args.engine
               THEN PlayerUpdate(Maze, args.p, args.direction, args.deltaTime)
               ELSE PlayerUpdateAlone(args.p, args.direction, args.deltaTime)
  /\ UNCHANGED << engineVars, collisionVars, inputVars, args >>

InitPlayer ==
  /\ EngineIdle
  /\ ghosts = CheckpointGhosts(150)
  /\ NoCollisionCall
  /\ InputIdle
  /\ args \in [ p : GhostPositions,
                direction : {-1, 0, 1} \X {-1, 0, 1},
                deltaTime : {0, 16, 50, 100},
                engine : BOOLEAN ]
  /\ result = << >>

SpecPlayer == InitPlayer /\ [][UpdatePlayer]_vars

\* -------------------------------------------------- getMazePositions alone
\* the canvas sizes resizeCanvas produces, 4:3 from 280x210 to 800x600, in
\* steps of 20 px of width
CanvasSizes ==
  { [ width |-> 2800 + 200 * k, height |-> ((2800 + 200 * k) * 3) \div 4 ] :
      k \in 0..26 }

\* grids in which no interior cell has three open neighbours: one corridor
\* from border to border with a lone path cell beside it, and walls only
FallbackGrids ==
  { [ row \in 1..MazeRows |-> [ col \in 1..MazeCols |->
        IF row = 7 \/ (row = 3 /\ col = 3) THEN 0 ELSE 1 ] ],
    [ row \in 1..MazeRows |-> [ col \in 1..MazeCols |-> 1 ] ] }

\* getMazePositions(dimensions) over gameState.maze = args.maze
GetMazePositions ==
  /\ op' = "getMazePositions"
  /\ result' = getMazePositions(args.maze)
  /\ UNCHANGED << engineVars, collisionVars, inputVars, args >>

InitPositions ==
  /\ EngineIdle
  /\ ghosts = CheckpointGhosts(150)
  /\ NoCollisionCall
  /\ InputIdle
  /\ \E size \in CanvasSizes, grid \in {MazeGrid} \cup FallbackGrids :
       args = [ maze |-> [ initializeMaze(size.width, size.height)
                             EXCEPT !.grid = grid ] ]
  /\ result = << >>

SpecPositions == InitPositions /\ [][GetMazePositions]_vars

\* ------------------------------------- the engine's entity functions alone
\* One call is made per behaviour, on the game state of args.
\* gameState.maze: not built yet, the maze the engine builds, and two mazes
\* too small for the entities (walls only; a pocket of two path cells)
EntityMazes ==
  { NoMaze, Maze } \cup
  { [ Maze EXCEPT !.grid = [ row \in 1..MazeRows |-> [ col \in 1..MazeCols |->
                               IF row = 7 /\ col \in pocket THEN 0 ELSE 1 ] ] ] :
      pocket \in { {}, {6, 7} } }

\* gameState.player: on a spawn cell, centred in the wall cell of row 0,
\* column 0, and left of the grid
EntityPlayers ==
  { CheckpointPlayer,
    [ x |-> Maze.offsetX + 140, y |-> Maze.offsetY + 140 ],
    [ x |-> 0, y |-> 0 ] }

\* the difficulty levels at which the functions are called
EntityLevels == { 1, 2, 7, 9 }

\* gameState.ghosts at a level: the four ghosts of the start and one more for
\* each even level reached, at most MaxGhosts, with the speed of the level;
\* the first `strays` of them are out of place, one parked off-screen and the
\* others centred in wall cells of row 0
EntityGhosts(level, strays) ==
  [ i \in 1..Min(MaxGhosts, InitialGhostCount + (level \div 2)) |->
      [ ( IF i > strays
          THEN NewGhost(Maze, MazePositions[i + 2].x, MazePositions[i + 2].y, 0)
          ELSE IF i = 1
          THEN NewGhost(Maze, -1000, -1000, 0)
          ELSE NewGhost(Maze, Maze.offsetX + i * Maze.cellSize + 140, Maze.offsetY + 140, 0) )
        EXCEPT !.speed = IF level = 1 THEN GhostSpeed ELSE SpeedAtLevel(level) ] ]

\* GameEngine.isValidMove(position, direction, distance) for the player of
\* args, whatever gameState.maze is
IsValidMoveAnyMaze ==
  \E d \in Directions, distance \in {0, 40} :
    /\ op = "initialize"
    /\ op' = "isValidMove"
    /\ result' = [ direction |-> d, distance |-> distance,
                   value |-> isValidMove(args.maze, args.player.x, args.player.y,
                                         d[1], d[2], distance) ]
    /\ UNCHANGED << engineVars, collisionVars, inputVars, args >>

\* GameEngine.isEntityInValidPosition(entity) for the player (entity 0) or a
\* ghost of args
IsEntityInValidPosition ==
  \E i \in 0..Len(args.ghosts) :
    /\ op = "initialize"
    /\ op' = "isEntityInValidPosition"
    /\ result' = [ entity |-> i,
                   value |-> IF i = 0
                             THEN isEntityInValidPosition(args.maze, args.player.x, args.player.y,
                                                          PlayerWidth, PlayerHeight)
                             ELSE isEntityInValidPosition(args.maze, args.ghosts[i].x,
                                                          args.ghosts[i].y,
                                                          GhostWidth, GhostHeight) ]
    /\ UNCHANGED << engineVars, collisionVars, inputVars, args >>

\* createEntities() over gameState.maze = args.maze, which it builds first
\* when there is none
CreateEntities ==
  LET m == IF args.maze = NoMaze THEN Maze ELSE args.maze
  IN  /\ op = "initialize"
      /\ op' = "createEntities"
      /\ \E rs \in SpawnDraws : result' = createEntities(m, getMazePositions(m), rs)
      /\ UNCHANGED << engineVars, collisionVars, inputVars, args >>

\* validateEntityPositions() over the game state of args
ValidateEntityPositions ==
  /\ op = "initialize"
  /\ op' = "validateEntityPositions"
  /\ result' \in validateEntityPositions(args.maze, getMazePositions(args.maze),
                                          args.player, args.ghosts)
  /\ UNCHANGED << engineVars, collisionVars, inputVars, args >>

\* the updates and repairs of one frame of gameLoop that validates positions,
\* over the game state of args with no key held and at most MaxSweepGhosts
\* ghosts
SweepInFrame ==
  /\ op = "initialize"
  /\ op' = "gameLoop"
  /\ Len(args.ghosts) <= MaxSweepGhosts
  /\ \E dt \in {0, 16} :
     \E gs1 \in GhostsFrameSteps(args.maze, getMazePositions(args.maze), args.ghosts, dt, TRUE),
        p1 \in PlayerFrameSteps(args.maze, getMazePositions(args.maze), args.player,
                                <<0, 0>>, dt, TRUE) :
       result' = [ player |-> p1, ghosts |-> gs1 ]
  /\ UNCHANGED << engineVars, collisionVars, inputVars, args >>

\* increaseDifficulty() over the game state of args
IncreaseDifficulty ==
  /\ op = "initialize"
  /\ op' = "increaseDifficulty"
  /\ result' \in increaseDifficulty(args.maze, getMazePositions(args.maze), args.level,
                                     args.player, args.ghosts)
  /\ UNCHANGED << engineVars, collisionVars, inputVars, args >>

InitEntities ==
  /\ EngineIdle
  /\ ghosts = CheckpointGhosts(150)
  /\ NoCollisionCall
  /\ InputIdle
  /\ \E m \in EntityMazes, p \in EntityPlayers, level \in EntityLevels, strays \in {0, 2} :
       args = [ maze |-> m, player |-> p, level |-> level,
                ghosts |-> EntityGhosts(level, strays) ]
  /\ result = << >>

SpecEntities ==
  InitEntities /\ [][ IsValidMoveAnyMaze \/ IsEntityInValidPosition \/ CreateEntities
                       \/ ValidateEntityPositions \/ SweepInFrame
                       \/ IncreaseDifficulty ]_vars

\* ---------------------------------------------------------- AssetManager
\* One call loadImages(imageUrls): args.imageUrls are the keys of imageUrls,
\* result.images is the object `images`, result.resolved the keys whose own
\* promise has resolved, result.promise the state of the promise returned
\* and result.value what it resolved with.
ImageKeys == { "faceOpen", "faceClosed", "ghost_linkedin", "ghost_kaggle" }

\* images[key] = value
PutImage(images, key, value) ==
  [ k \in DOMAIN images \cup {key} |-> IF k = key THEN value ELSE images[k] ]

\* img.onload: images[key] = img; resolve(img)
onload(st, key) ==
  [ st EXCEPT !.images = PutImage(@, key, "img"), !.resolved = @ \cup {key} ]

\* a variant that resolves without an entry for the image that failed, to
\* try the properties against
onerrorWithoutImage(st, key) == [ st EXCEPT !.resolved = @ \cup {key} ]

\* img.onerror: images[key] = new Image(); resolve(images[key])
onerror(st, key) ==
  [ st EXCEPT !.images = PutImage(@, key, "empty"), !.resolved = @ \cup {key} ]

\* the load event of an image that has fired no event yet
OnLoad ==
  \E key \in args.imageUrls \ result.resolved :
    /\ op' = "onload"
    /\ result' = onload(result, key)
    /\ UNCHANGED << engineVars, collisionVars, inputVars, args >>

\* the error event of an image that has fired no event yet
OnError ==
  \E key \in args.imageUrls \ result.resolved :
    /\ op' = "onerror"
    /\ result' = onerror(result, key)
    /\ UNCHANGED << engineVars, collisionVars, inputVars, args >>

\* Promise.all(imagePromises).then(() => images): the reaction that runs
\* once every promise of imagePromises has resolved
ThenImages ==
  /\ result.promise = "pending"
  /\ result.resolved = args.imageUrls
  /\ op' = "then"
  /\ result' = [ result EXCEPT !.promise = "fulfilled", !.value = result.images ]
  /\ UNCHANGED << engineVars, collisionVars, inputVars, args >>

\* loadImages(imageUrls) has returned: every image is loading
InitImages ==
  /\ EngineIdle
  /\ ghosts = CheckpointGhosts(150)
  /\ NoCollisionCall
  /\ InputIdle
  /\ \E imageUrls \in SUBSET ImageKeys : args = [ imageUrls |-> imageUrls ]
  /\ result = [ images |-> << >>, resolved |-> {}, promise |-> "pending", value |-> << >> ]

NextImages == OnLoad \/ OnError \/ ThenImages

SpecImages == InitImages /\ [][NextImages]_vars

\* the job queue runs the reaction of a promise that has settled
SpecImagesFair == SpecImages /\ WF_vars(ThenImages)

\* ------------------------------------------------- a ghost, update by update
\* A maze of the engine's size with four PATH cells: a corridor of three
\* cells in row 7 and a stub below its middle cell; each of its three ends is
\* a dead end.
DeadEndMaze ==
  [ Maze EXCEPT !.grid = [ row \in 1..MazeRows |-> [ col \in 1..MazeCols |->
                             IF \/ (row = 8 /\ col \in {7, 8, 9})
                                \/ (row = 9 /\ col = 8)
                             THEN 0 ELSE 1 ] ] ]

\* the values r / 10 of Math.random() of an update: they reach every index
\* of a list of 2, 3 or 4 directions
RunRandoms == {0, 3, 5, 8}

\* ghost.update(deltaTime) of a frame of MaxDeltaTime ms with the values r1,
\* r2, r3 of Math.random(); args.g is the ghost, result.moved tells whether
\* the update changed its position
RunUpdate(r1, r2, r3) ==
  LET g1 == GhostUpdate(DeadEndMaze, args.g, MaxDeltaTime, r1, r2, r3)
  IN  /\ op' = "Ghost.update"
      /\ args' = [ g |-> g1 ]
      /\ result' = [ moved |-> (g1.x # args.g.x \/ g1.y # args.g.y) ]
      /\ UNCHANGED << engineVars, collisionVars, inputVars >>

\* the frames update the ghost with whatever Math.random() returns
RunGhost == \E r1 \in RunRandoms, r2 \in RandomTenths, r3 \in RunRandoms : RunUpdate(r1, r2, r3)

\* a ghost just constructed in the middle of one of the four cells, with the
\* speed of level 1 or of level 9
InitRun ==
  /\ EngineIdle
  /\ ghosts = CheckpointGhosts(150)
  /\ NoCollisionCall
  /\ InputIdle
  /\ \E c \in { <<7, 6>>, <<7, 7>>, <<7, 8>>, <<8, 7>> }, r \in RunRandoms, level \in {1, 9} :
       args = [ g |-> [ NewGhost(DeadEndMaze, CellPosition(DeadEndMaze, c[1], c[2], 0).x,
                                 CellPosition(DeadEndMaze, c[1], c[2], 0).y, r)
                        EXCEPT !.speed = GhostSpeed + (level - 1) * SpeedStep ] ]
  /\ result = [ moved |-> FALSE ]

SpecRun == InitRun /\ [][RunGhost]_vars

\* Math.random() is fair: a value that would change the ghost again and again
\* is drawn in the end
SpecRunFair ==
  SpecRun /\ \A r \in RunRandoms : SF_vars(RunUpdate(r, 0, r))

\* ------------------------------------------------ the canvas and the maze
\* window.innerWidth and window.innerHeight, in px
WindowSizes ==
  { [ innerWidth |-> w, innerHeight |-> h ] :
      w \in {320, 768, 1024, 1440}, h \in {480, 640, 900} }

\* CanvasManager.resize(): the canvas width and height in px of a window;
\* widths and heights are kept as twelfths of a px up to Math.floor
resize(innerWidth, innerHeight) ==
  LET margin == IF innerWidth <= 768 THEN 10 ELSE 20
      maxWidth == innerWidth - (margin * 2)
      maxHeight == innerHeight - (margin * 2)
      wider == maxWidth * 3 > maxHeight * 4
      width12 == IF wider THEN 16 * Min(maxHeight, 600) ELSE 12 * Min(maxWidth, 800)
      height12 == IF wider THEN 12 * Min(maxHeight, 600) ELSE 9 * Min(maxWidth, 800)
  IN  [ width  |-> Max(width12, 12 * 280) \div 12,
        height |-> Max(height12, 12 * 210) \div 12 ]

\* CanvasManager.getDimensions(), in tenths of a px
getDimensions(canvas) == [ width |-> canvas.width * 10, height |-> canvas.height * 10 ]

\* "if (!gameState.maze) initializeMaze(dimensions)" of render, createEntities
\* and drawBackground
EnsureMaze(m, dimensions) ==
  IF m = NoMaze THEN initializeMaze(dimensions.width, dimensions.height) ELSE m

\* the resize listener of the window runs
Resize ==
  \E w \in WindowSizes :
    /\ op' = "resize"
    /\ args' = [args EXCEPT !.canvas = resize(w.innerWidth, w.innerHeight)]
    /\ UNCHANGED << engineVars, collisionVars, inputVars, result >>

\* a frame: gameState.maze as render leaves it, and the cellSize and offsets
\* isValidMove, isEntityInValidPosition and getMazePositions then read
FrameOnCanvas ==
  LET m == EnsureMaze(args.maze, getDimensions(args.canvas))
  IN  /\ op' = "gameLoop"
      /\ args' = [args EXCEPT !.maze = m]
      /\ result' = [ cellSize |-> m.cellSize, offsetX |-> m.offsetX, offsetY |-> m.offsetY ]
      /\ UNCHANGED << engineVars, collisionVars, inputVars >>

\* restart(): createEntities builds the maze only when there is none
RestartOnCanvas ==
  /\ op' = "restart"
  /\ args' = [args EXCEPT !.maze = EnsureMaze(args.maze, getDimensions(args.canvas))]
  /\ UNCHANGED << engineVars, collisionVars, inputVars, result >>

\* initialize(): the maze is built from the dimensions of the canvas
InitializeOnCanvas ==
  /\ op' = "initialize"
  /\ args' = [args EXCEPT !.maze = initializeMaze(getDimensions(args.canvas).width,
                                                  getDimensions(args.canvas).height)]
  /\ UNCHANGED << engineVars, collisionVars, inputVars, result >>

\* CanvasManager.initialize() has sized the canvas for the window and
\* GameEngine.initialize() has built the maze for it
InitCanvas ==
  /\ EngineIdle
  /\ ghosts = CheckpointGhosts(150)
  /\ NoCollisionCall
  /\ InputIdle
  /\ \E w \in WindowSizes :
       LET canvas == resize(w.innerWidth, w.innerHeight)
       IN  args = [ canvas |-> canvas,
                    maze |-> initializeMaze(getDimensions(canvas).width,
                                            getDimensions(canvas).height) ]
  /\ result = << >>

SpecCanvas ==
  InitCanvas /\ [][Resize \/ FrameOnCanvas \/ RestartOnCanvas \/ InitializeOnCanvas]_vars

\* ------------------------------------------------------------ MindEngine
\* args is the module state of MindEngine (strikes, isRunning, the calls of
\* init made and the #mind-game-ui containers in the page), result what the
\* page shows (the crosses and circles of #strikes-container, the feedback
\* line) and whether the last call threw.

\* the guesses, as val.toLowerCase().trim() leaves them
Guesses == { "nothing", "nada", "nedad", "", "nothing at all", "42", "churros" }

\* the guesses checkGuess accepts
IsCorrect(guess) == guess \in { "nothing", "nada", "nedad", "", "nothing at all" }

\* updateStrikes() on the page `shown`: String.prototype.repeat throws a
\* RangeError for a negative count, before innerHTML is assigned
updateStrikes(strikes, shown) ==
  IF 3 - strikes < 0
  THEN [shown EXCEPT !.thrown = TRUE]
  ELSE [shown EXCEPT !.crosses = strikes, !.circles = 3 - strikes]

\* MindEngine.init(targetCanvas): a new container is appended to the page;
\* getElementById finds the first #strikes-container, empty only if the
\* container is the only one
MindInit ==
  /\ args.inits < MaxInits
  /\ op' = "init"
  /\ args' = [args EXCEPT !.isRunning = TRUE, !.inits = @ + 1, !.uis = @ + 1]
  /\ result' = updateStrikes(args.strikes,
                             IF args.uis = 0
                             THEN [ crosses |-> 0, circles |-> 0, feedback |-> "", thrown |-> FALSE ]
                             ELSE [result EXCEPT !.thrown = FALSE])
  /\ UNCHANGED << engineVars, collisionVars, inputVars >>

\* checkGuess(val), called by the keypress listener of an input of the page
CheckGuess ==
  \E guess \in Guesses :
    /\ args.uis > 0
    /\ op' = "checkGuess"
    /\ IF IsCorrect(guess)
       THEN /\ args' = args
            /\ result' = [result EXCEPT !.feedback = "CORRECT", !.thrown = FALSE]
       ELSE /\ args.strikes < MaxGuesses
            /\ args' = [args EXCEPT !.strikes = @ + 1]
            /\ result' = updateStrikes(args.strikes + 1,
                                       [result EXCEPT !.feedback = "WRONG", !.thrown = FALSE])
    /\ UNCHANGED << engineVars, collisionVars, inputVars >>

\* MindEngine.stop(): the container of the last init is removed
MindStop ==
  /\ args.inits > 0
  /\ op' = "stop"
  /\ args' = [args EXCEPT !.isRunning = FALSE,
                          !.uis = IF args.isRunning THEN @ - 1 ELSE @]
  /\ result' = [result EXCEPT !.thrown = FALSE]
  /\ UNCHANGED << engineVars, collisionVars, inputVars >>

\* the module as its scope leaves it: strikes = 0, isRunning = false
InitMind ==
  /\ EngineIdle
  /\ ghosts = CheckpointGhosts(150)
  /\ NoCollisionCall
  /\ InputIdle
  /\ args = [ strikes |-> 0, isRunning |-> FALSE, inits |-> 0, uis |-> 0 ]
  /\ result = [ crosses |-> 0, circles |-> 0, feedback |-> "", thrown |-> FALSE ]

SpecMind == InitMind /\ [][MindInit \/ CheckGuess \/ MindStop]_vars

\* ------------------------------------------------------------- properties
\* the ghosts of gs whose bounds collide with those of p
Overlapping(p, gs) ==
  { i \in 1..Len(gs) : checkCollision(PlayerBounds(p), GhostBounds(gs[i])) }

\* the ghosts of gs whose bounds are those of p
Identical(p, gs) ==
  { i \in 1..Len(gs) : GhostBounds(gs[i]) = PlayerBounds(p) }

\* the step is a frame of gameLoop that got past its isRunning guard
Frame == op' = "gameLoop" /\ isRunning

\* the step is a call of restart() or initialize()
Start == op' \in {"restart", "initialize"}

\* C1: isGameOver changes from false to true only in a frame of gameLoop that
\* began with gracePeriod <= 0 and whose collision check, made after the
\* frame's updates, found an enemy overlapping the player.
C1_GameOverOnlyByCollision ==
  [][ (~isGameOver /\ isGameOver') =>
        /\ Frame
        /\ gracePeriod <= 0
        /\ collidedGhost' \in Overlapping(player', ghosts') ]_vars

\* a frame has ended the game on a collision
C1_Witness == isGameOver /\ op = "gameLoop" /\ collidedGhost # 0

\* C2: a frame that begins with gracePeriod > 0 makes no collision check and
\* only counts gracePeriod down by the clamped deltaTime, not below 0; a frame
\* that begins with gracePeriod = 0 and leaves the player overlapping an enemy
\* ends the game.
C2_GraceSkipsCollisions ==
  [][ /\ (Frame /\ gracePeriod > 0) =>
           /\ collidedGhost' = 0
           /\ isGameOver' = isGameOver
           /\ gracePeriod' = Max(0, gracePeriod - normalizedDeltaTime')
      /\ (Frame /\ gracePeriod = 0 /\ Overlapping(player', ghosts') # {}) =>
           isGameOver' ]_vars

\* the grace period ran out exactly at 3000 ms of frames without a game over
\* although an enemy came to overlap the player, and the next frame ended
\* the game
C2_Witness ==
  /\ isGameOver
  /\ collidedGhost # 0
  /\ gracePeriod = 0
  /\ difficultyTimer = GracePeriodStart + MaxDeltaTime

\* C3 as stated: the score never decreases while the game is not over, and
\* the frame that detects the collision, like every later step before a
\* restart, leaves the score as it was.
C3_ScoreFrozenFromCollision ==
  [][ /\ (~isGameOver /\ ~Start) => score' >= score
      /\ (isGameOver' /\ ~Start) => score' = score ]_vars

\* C3, what the engine does: the score never decreases before a restart, and
\* no step that begins with the game over changes it.
C3_ScoreFrozenAfterCollisionFrame ==
  [][ /\ ~Start => score' >= score
      /\ (isGameOver /\ ~Start) => score' = score ]_vars

\* the frame that ended the game has added to the score
C3_Witness == isGameOver /\ op = "gameLoop" /\ collidedGhost # 0 /\ score > 0

\* C4: a frame raises difficultyLevel by exactly 1 and resets difficultyTimer
\* to 0 when the timer plus the frame's clamped deltaTime reaches
\* difficultyInterval; every other frame adds its clamped deltaTime to the
\* timer and leaves the level alone; nothing else raises the level.
C4_LevelUpOncePerInterval ==
  [][ /\ Frame =>
           IF difficultyTimer + normalizedDeltaTime' >= DifficultyInterval
           THEN difficultyLevel' = difficultyLevel + 1 /\ difficultyTimer' = 0
           ELSE /\ difficultyLevel' = difficultyLevel
                /\ difficultyTimer' = difficultyTimer + normalizedDeltaTime'
      /\ ~Frame => difficultyLevel' \in {difficultyLevel, 1} ]_vars

\* a frame has run at level 2 after the frame that raised the level
C4_Witness ==
  /\ op = "gameLoop"
  /\ difficultyLevel = 2
  /\ difficultyTimer > 0
  /\ difficultyTimer < DifficultyInterval

\* C5: restart() from a game that is over leaves score 0, level 1, timer 0,
\* isGameOver false, gracePeriod 3000, a player and enemies just created by
\* createEntities, and the frame loop running with a callback registered.
C5_RestartResets ==
  [][ (op' = "restart" /\ isGameOver) =>
        /\ score' = 0
        /\ difficultyLevel' = 1
        /\ difficultyTimer' = 0
        /\ ~isGameOver'
        /\ gracePeriod' = GracePeriodStart
        /\ gracePeriodMax' = GracePeriodStart
        /\ [ player |-> player', ghosts |-> ghosts' ] \in FreshEntities
        /\ \A i \in 1..Len(ghosts') : ghosts'[i].speed = GhostSpeed
        /\ isRunning'
        /\ rafPending' >= 1 ]_vars

\* restart() has been called right after the frame that ended the game
C5_Witness ==
  /\ op = "restart"
  /\ collidedGhost # 0
  /\ ~isGameOver
  /\ isRunning
  /\ score = 0

\* C6 as stated: only restart() makes isGameOver false again.
C6_OnlyRestartLeavesGameOver ==
  [][ (isGameOver /\ ~isGameOver') => op' = "restart" ]_vars

\* C6: while isGameOver is true the loop is not running, and every step but
\* a call of restart() or initialize() leaves it so.
C6_GameOverUntilStart ==
  /\ [](isGameOver => ~isRunning)
  /\ [][ (isGameOver /\ ~Start) => (isGameOver' /\ ~isRunning') ]_vars

\* a frame callback that was still registered has run with the game over
C6_Witness == isGameOver /\ ~isRunning /\ op = "gameLoop" /\ collidedGhost = 0

\* C7 as stated: a frame that begins with gracePeriod = 0 and an enemy whose
\* bounds are the player's ends with isGameOver true and that enemy returned
\* by the collision check.
C7_IdenticalBoundsEndGame ==
  [][ (Frame /\ gracePeriod = 0 /\ Identical(player, ghosts) # {}) =>
        (isGameOver' /\ collidedGhost' \in Identical(player, ghosts)) ]_vars

\* C7: a frame that begins with gracePeriod = 0 and an enemy whose bounds are
\* the player's ends with isGameOver true and an enemy returned by the
\* collision check when the distances the player and that enemy cover in the
\* frame add up to no more than the width of the hitbox.
C7_IdenticalBoundsEndGameWhenSlow ==
  [][ \A i \in Identical(player, ghosts) :
        ( /\ Frame
          /\ gracePeriod = 0
          /\ Distance(PlayerSpeed, normalizedDeltaTime')
               + Distance(ghosts[i].speed, normalizedDeltaTime')
               <= EntitySize - 2 * HitboxReduction ) =>
        (isGameOver' /\ collidedGhost' \in 1..Len(ghosts)) ]_vars

\* a frame that began with identical bounds and gracePeriod = 0 has ended the
\* game after the player and the enemy moved apart
C7_Witness ==
  /\ isGameOver
  /\ op = "gameLoop"
  /\ gracePeriod = 0
  /\ difficultyTimer = GracePeriodStart + 20
  /\ score = Round(MaxDeltaTime, 50) + Round(20, 10)
  /\ collidedGhost # 0
  /\ Identical(player, ghosts) = {}

\* C8: checkCollision(A, B) = checkCollision(B, A).
C8_CheckCollisionSymmetric ==
  op = "checkCollision" => collides = checkCollision(boundsB, boundsA)

\* checkCollision has returned true for two different boxes
C8_Witness == op = "checkCollision" /\ collides /\ boundsA # boundsB

\* the box has its left edge left of its right edge and its top above its bottom
WellFormed(b) == b.left <= b.right /\ b.top <= b.bottom

\* an edge of a lies on the opposite edge of b, and the boxes' extents on the
\* other axis overlap
TouchAtEdge(a, b) ==
  \/ (a.right = b.left \/ b.right = a.left) /\ a.top <= b.bottom /\ b.top <= a.bottom
  \/ (a.bottom = b.top \/ b.bottom = a.top) /\ a.left <= b.right /\ b.left <= a.right

\* the boxes are a positive distance apart on some axis
Gap(a, b) ==
  \/ a.right < b.left
  \/ b.right < a.left
  \/ a.bottom < b.top
  \/ b.bottom < a.top

\* C9: checkCollision is true for two boxes that touch at an edge and false
\* for two boxes with a positive gap between them on some axis, in both
\* revisions of the function.
C9_TouchingCollidesGapDoesNot ==
  op = "checkCollision" =>
    /\ (WellFormed(boundsA) /\ WellFormed(boundsB) /\ TouchAtEdge(boundsA, boundsB)) =>
         (collides /\ collidesObjects)
    /\ Gap(boundsA, boundsB) => ~collides
    /\ (WellFormed(boundsA) /\ WellFormed(boundsB) /\ Gap(boundsA, boundsB)) =>
         ~collidesObjects

\* checkCollision has returned true for two boxes of positive size whose only
\* common points are on A's right edge and B's left edge
C9_Witness ==
  /\ op = "checkCollision"
  /\ boundsA.left < boundsA.right
  /\ boundsA.right = boundsB.left
  /\ boundsB.left < boundsB.right
  /\ boundsA.top < boundsA.bottom
  /\ boundsA.top = boundsB.top
  /\ boundsA.bottom = boundsB.bottom
  /\ collides

DirectionOf(g) == <<g.dx, g.dy>>
ReverseOf(g) == <<-g.dx, -g.dy>>

\* the directions other than the reverse of g's that isValidMove accepts for
\* the probe distance speed * 0.05
WalkableNonReverse(g) ==
  { d \in { <<1, 0>>, <<-1, 0>>, <<0, 1>>, <<0, -1>> } :
      /\ d # ReverseOf(g)
      /\ isValidMove(Maze, g.x, g.y, d[1], d[2], g.speed \div 2) }

\* C11: when isValidMove accepts the probe move in at least one direction other
\* than the reverse of the ghost's direction, chooseNewDirection does not set
\* the direction to that reverse.
C11_NoReverseWhenWalkable ==
  (op = "chooseNewDirection" /\ args.engine /\ WalkableNonReverse(args.g) # {}) =>
    DirectionOf(result) # ReverseOf(args.g)

\* a moving ghost against a wall, with a walkable direction other than the
\* reverse, has chosen a direction
C11_Witness ==
  /\ op = "chooseNewDirection"
  /\ args.engine
  /\ DirectionOf(args.g) # <<0, 0>>
  /\ ~isValidMove(Maze, args.g.x, args.g.y, args.g.dx, args.g.dy, args.g.speed \div 2)
  /\ WalkableNonReverse(args.g) # {}
  /\ isValidMove(Maze, args.g.x, args.g.y, -args.g.dx, -args.g.dy, args.g.speed \div 2)
  /\ DirectionOf(result) # DirectionOf(args.g)

\* the destination of the move isValidMove was asked about
NewX == args.x + args.dx * args.distance
NewY == args.y + args.dy * args.distance

\* the box of width w and height h at (x, y) covers only cells of the grid
\* that are paths
BoxInPathCells(x, y, w, h) ==
  \A row \in GridIndex(y, Maze.offsetY, Maze.cellSize)
               ..GridIndex(y + h, Maze.offsetY, Maze.cellSize),
     col \in GridIndex(x, Maze.offsetX, Maze.cellSize)
               ..GridIndex(x + w, Maze.offsetX, Maze.cellSize) :
    /\ row >= 0 /\ row < MazeRows
    /\ col >= 0 /\ col < MazeCols
    /\ Cell(Maze.grid, row, col) = 0

\* the box of width w and height h at (x, y) is inside the canvas
BoxInCanvas(x, y, w, h) ==
  x >= 0 /\ y >= 0 /\ x + w <= CanvasWidth /\ y + h <= CanvasHeight

\* C12: isValidMove returns true for every move whose destination box, the
\* box isValidMove builds there, lies within path cells and inside the canvas.
C12_ValidWhenBoxInPath ==
  ( /\ op = "isValidMove"
    /\ BoxInPathCells(NewX, NewY, PlayerWidth, PlayerHeight)
    /\ BoxInCanvas(NewX, NewY, PlayerWidth, PlayerHeight) ) =>
    result = TRUE

\* a move of 7.5 px to the left has been accepted that ends in path cells,
\* less than 7.5 px from a wall
C12_Witness ==
  /\ op = "isValidMove"
  /\ args.distance = 75
  /\ <<args.dx, args.dy>> = <<-1, 0>>
  /\ BoxInPathCells(NewX, NewY, PlayerWidth, PlayerHeight)
  /\ IsWallPoint(Maze, NewX - args.distance, NewY)
  /\ result = TRUE

\* one of the 8 sampled points of the box of width w and height h at (x, y)
\* is in a wall cell
SampleInWall(x, y, w, h) ==
  \E pt \in SamplePoints(x, y, w, h) : IsWallPoint(Maze, pt[1], pt[2])

\* C13 as stated: isValidMove returns false when one of the 8 sampled points
\* of the mover's own box at the destination is in a wall cell.
C13_InvalidWhenMoverSampleInWall ==
  (op = "isValidMove" /\ SampleInWall(NewX, NewY, args.size, args.size)) =>
    result = FALSE

\* C13, what the engine does: isValidMove returns false when one of the 8
\* sampled points of the box of the player's size at the destination is in a
\* wall cell.
C13_InvalidWhenPlayerSampleInWall ==
  (op = "isValidMove" /\ SampleInWall(NewX, NewY, PlayerWidth, PlayerHeight)) =>
    result = FALSE

\* a move has been refused for a sampled point of the mover's own box in a wall
C13_Witness ==
  /\ op = "isValidMove"
  /\ args.size = PlayerWidth
  /\ args.distance > 0
  /\ SampleInWall(NewX, NewY, args.size, args.size)
  /\ result = FALSE

\* the entity-sized box at position p overlaps a wall cell of maze m
OverlapsWall(m, p) ==
  \E row \in GridIndex(p.y, m.offsetY, m.cellSize)
               ..GridIndex(p.y + EntitySize, m.offsetY, m.cellSize),
     col \in GridIndex(p.x, m.offsetX, m.cellSize)
               ..GridIndex(p.x + EntitySize, m.offsetX, m.cellSize) :
    /\ row >= 0 /\ row < MazeRows
    /\ col >= 0 /\ col < MazeCols
    /\ Cell(m.grid, row, col) = 1

\* the cell of position p is a path with a path cell above, below, left or
\* right of it
PathWithPathNeighbor(m, p) ==
  /\ Cell(m.grid, p.row, p.col) = 0
  /\ \E d \in { <<-1, 0>>, <<1, 0>>, <<0, -1>>, <<0, 1>> } :
       /\ p.row + d[1] \in 0..(MazeRows - 1)
       /\ p.col + d[2] \in 0..(MazeCols - 1)
       /\ Cell(m.grid, p.row + d[1], p.col + d[2]) = 0

\* the strict pass of getMazePositions found a cell
StrictPassUsed == Len(StrictScan(args.maze)) > 0

\* C14: no position getMazePositions returns from its strict pass has its
\* entity-sized box over a wall cell, and every position it returns from the
\* lenient pass is a path cell with a path cell next to it.
C14_SafePositions ==
  op = "getMazePositions" =>
    \A k \in 1..Len(result) :
      IF StrictPassUsed
      THEN ~OverlapsWall(args.maze, result[k])
      ELSE PathWithPathNeighbor(args.maze, result[k])

\* the strict pass has returned positions for the smallest canvas, where a
\* cell is 14 px wide and the 12 px box leaves 1 px on each side
C14_Witness ==
  /\ op = "getMazePositions"
  /\ StrictPassUsed
  /\ args.maze.cellSize = 140
  /\ Len(result) > 0

\* the lenient pass has returned positions, the cells of a corridor
C14_WitnessLenient ==
  /\ op = "getMazePositions"
  /\ ~StrictPassUsed
  /\ Len(result) > 0

\* the player's box after the whole step asked of Player.update
StepX == args.p.x + args.direction[1] * ((PlayerSpeed * Min(args.deltaTime, 50)) \div 100)
StepY == args.p.y + args.direction[2] * ((PlayerSpeed * Min(args.deltaTime, 50)) \div 100)

\* the step asked of Player.update is blocked neither by a wall (with the
\* engine) nor by a canvas edge
Unblocked ==
  /\ BoxInCanvas(StepX, StepY, PlayerWidth, PlayerHeight)
  /\ args.engine => ~SampleInWall(StepX, StepY, PlayerWidth, PlayerHeight)

\* the direction given to Player.update has exactly one non-zero axis
SingleAxis == (args.direction[1] = 0) # (args.direction[2] = 0)

\* C15: an unblocked Player.update along one axis changes that coordinate by
\* exactly speed * min(deltaTime, 50) / 1000 px in the direction's sign and
\* leaves the other coordinate as it was (positions in tenths of a pixel).
C15_ExactStep ==
  (op = "Player.update" /\ SingleAxis /\ Unblocked) =>
    /\ (result.x - args.p.x) * 100 =
         args.direction[1] * PlayerSpeed * Min(args.deltaTime, 50)
    /\ (result.y - args.p.y) * 100 =
         args.direction[2] * PlayerSpeed * Min(args.deltaTime, 50)

\* the player has moved 3.2 px to the right in a 16 ms update
C15_Witness ==
  /\ op = "Player.update"
  /\ args.direction = <<1, 0>>
  /\ args.deltaTime = 16
  /\ Unblocked
  /\ result.x = args.p.x + 32
  /\ result.y = args.p.y

\* C16: after every Player.update the player's box is inside the canvas:
\* 0 <= x <= canvasWidth - width and 0 <= y <= canvasHeight - height.
C16_PlayerInsideCanvas ==
  op = "Player.update" =>
    /\ 0 <= result.x /\ result.x <= CanvasWidth - PlayerWidth
    /\ 0 <= result.y /\ result.y <= CanvasHeight - PlayerHeight

\* a player at the right-hand edge of the canvas has been updated with the
\* direction to the right for 100 ms, without the engine, and stayed there
C16_Witness ==
  /\ op = "Player.update"
  /\ ~args.engine
  /\ args.p.x = CanvasWidth - PlayerWidth
  /\ args.direction = <<1, 0>>
  /\ args.deltaTime = 100
  /\ result.x = CanvasWidth - PlayerWidth

\* C17: Ghost.update never moves a ghost that lies inside the canvas to a
\* position where its box passes a canvas edge, with the engine or without.
C17_GhostStaysInsideCanvas ==
  ( /\ op = "Ghost.update"
    /\ BoxInCanvas(args.g.x, args.g.y, GhostWidth, GhostHeight) ) =>
    BoxInCanvas(result.x, result.y, GhostWidth, GhostHeight)

\* a ghost inside the canvas, heading for an edge it would pass in this
\* update, has been updated without the engine and has stayed where it was
C17_Witness ==
  /\ op = "Ghost.update"
  /\ ~args.engine
  /\ BoxInCanvas(args.g.x, args.g.y, GhostWidth, GhostHeight)
  /\ <<args.g.dx, args.g.dy>> = <<1, 0>>
  /\ args.g.x + Distance(args.g.speed, args.deltaTime) + GhostWidth > CanvasWidth
  /\ result.x = args.g.x
  /\ result.y = args.g.y

\* the same with the engine
C17_WitnessEngine ==
  /\ op = "Ghost.update"
  /\ args.engine
  /\ <<args.g.dx, args.g.dy>> = <<1, 0>>
  /\ args.g.x + Distance(args.g.speed, args.deltaTime) + GhostWidth > CanvasWidth
  /\ result.x = args.g.x
  /\ result.y = args.g.y

\* the directionTimer of the updated ghost reaches the direction change
\* interval during the update
TimerReachesInterval ==
  /\ args.g.directionTimer < DirectionChangeBase
  /\ args.g.directionTimer + args.deltaTime >= DirectionChangeBase

\* C18 as stated: when the directionTimer reaches the direction change
\* interval during an update, the direction after the update differs from the
\* direction before it.
C18_DirectionChangesAtInterval ==
  (op = "Ghost.update" /\ TimerReachesInterval) =>
    DirectionOf(result) # DirectionOf(args.g)

\* an update in which the timer reached the interval has left the moving
\* ghost with the direction it had and the timer running
C18_Witness ==
  /\ op = "Ghost.update"
  /\ TimerReachesInterval
  /\ DirectionOf(args.g) = <<1, 0>>
  /\ args.deltaTime = 20
  /\ DirectionOf(result) = <<1, 0>>
  /\ result.directionTimer = args.g.directionTimer + args.deltaTime

\* getDirection(): a copy of the direction object
getDirection == [ x |-> inputDirection[1], y |-> inputDirection[2] ]

\* C19: a keyup clears the direction only when the direction is the one the
\* released key sets; the release of any other key leaves the direction as
\* it was.
C19_KeyUpOnlyOwnDirection ==
  [][ op' = "keyup" =>
        inputDirection' =
          IF /\ inputDirection # <<0, 0>>
             /\ inputDirection = keydownHandler(<<0, 0>>, args'.key)
          THEN <<0, 0>>
          ELSE inputDirection ]_vars

\* the Right key has been released while the direction was up, and the
\* direction is still up
C19_Witness ==
  /\ op = "keyup"
  /\ args.key = "ArrowRight"
  /\ inputDirection = <<0, -1>>

\* C20: getDirection always returns one of (0,0), (1,0), (-1,0), (0,1),
\* (0,-1): both axes in {-1, 0, 1} and at most one of them non-zero.
C20_DirectionSingleAxis ==
  /\ getDirection.x \in {-1, 0, 1}
  /\ getDirection.y \in {-1, 0, 1}
  /\ getDirection.x = 0 \/ getDirection.y = 0

\* a key has been released while a touch is down and a deferred reset is
\* pending, and a direction is still set
C20_Witness ==
  /\ op = "keyup"
  /\ touchActive
  /\ resetTimers > 0
  /\ getDirection \in { [x |-> 0, y |-> 1], [x |-> -1, y |-> 0] }

\* gameState as the frame loop writes it
gameState == << isRunning, isGameOver, score, difficultyLevel, difficultyTimer,
                gracePeriod, gracePeriodMax, player, ghosts, lastFrameTime >>

\* C21 as stated: once the switcher has moved to another game, no frame of
\* the maze engine changes gameState.
C21_NoFrameAfterSwitch ==
  [][ (args.currentEngine # "adventure" /\ op' = "gameLoop") =>
        UNCHANGED gameState ]_vars

\* a frame of the maze engine has run, updates included, while the switcher's
\* current engine is another game
C21_Witness ==
  /\ args.currentEngine = "invaders"
  /\ op = "gameLoop"
  /\ isRunning
  /\ normalizedDeltaTime > 0

C22_WitnessStopped ==
  /\ op = "gameLoop"
  /\ isGameOver
  /\ ~rendered

\* C23: the collision check of a frame sees the positions the frame's updates
\* of the player and of every enemy produced: in a frame that checks
\* collisions and does not escalate, the game ends exactly when an enemy
\* overlaps the player at the positions the frame leaves, and the enemy found
\* is the first such enemy of the list.
C23_CheckAfterUpdates ==
  [][ (Frame /\ gracePeriod <= 0 /\ difficultyLevel' = difficultyLevel) =>
        /\ isGameOver' = (Overlapping(player', ghosts') # {})
        /\ \A i \in Overlapping(player', ghosts') :
             collidedGhost' # 0 /\ collidedGhost' <= i
        /\ Overlapping(player', ghosts') = {} => collidedGhost' = 0 ]_vars

\* a game that was 15 px away from a collision has ended on the overlap the
\* updates of two frames produced
C23_Witness ==
  /\ op = "gameLoop"
  /\ isGameOver
  /\ collidedGhost = 1
  /\ difficultyLevel = 1
  /\ difficultyTimer > 29950
  /\ player.x > CheckpointPlayer.x
  /\ ghosts[1].x < CheckpointPlayer.x + 150

\* C24: whatever creates, escalates or sweeps the entities leaves an enemy
\* list of at most MaxGhosts (8) enemies.
C24_AtMostMaxGhosts ==
  op \in { "createEntities", "increaseDifficulty", "validateEntityPositions", "gameLoop" } =>
    Len(result.ghosts) <= MaxGhosts

\* an escalation to an even level has found MaxGhosts enemies and added none
C24_Witness ==
  /\ op = "increaseDifficulty"
  /\ result.level % 2 = 0
  /\ Len(args.ghosts) = MaxGhosts
  /\ Len(result.ghosts) = MaxGhosts

\* an escalation to an even level has added the enemy that fills the list
C24_WitnessLast ==
  /\ op = "increaseDifficulty"
  /\ Len(args.ghosts) = MaxGhosts - 1
  /\ Len(result.ghosts) = MaxGhosts
  /\ args.maze = Maze

\* C25: the promise of loadImages is fulfilled only when every requested
\* image has loaded or failed, and then with an object that has exactly the
\* requested keys; and once every requested image has loaded or failed, in
\* whatever order, the promise is fulfilled.
C25_ResolvesWithEveryKey ==
  /\ [](result.promise = "fulfilled" =>
          /\ DOMAIN result.value = args.imageUrls
          /\ result.resolved = args.imageUrls)
  /\ [](result.resolved = args.imageUrls => <>(result.promise = "fulfilled"))

\* the promise has been fulfilled after the first image failed and a later
\* one loaded
C25_Witness ==
  /\ result.promise = "fulfilled"
  /\ DOMAIN result.value = args.imageUrls
  /\ \E k1 \in args.imageUrls, k2 \in args.imageUrls :
       result.value[k1] = "empty" /\ result.value[k2] = "img"

C27_GraceAfterEscalation ==
  [][ /\ (Frame /\ difficultyLevel' > difficultyLevel) =>
            (gracePeriod' = GracePeriodEscalation /\ difficultyTimer' = 0)
      /\ (Frame /\ difficultyLevel > 1 /\ ~isGameOver /\ isGameOver') =>
            difficultyTimer >= GracePeriodEscalation ]_vars

\* a collision has ended the game at level 2, in the first frame after the
\* 1500 ms were over
C27_Witness ==
  /\ isGameOver
  /\ collidedGhost # 0
  /\ difficultyLevel = 2
  /\ difficultyTimer - normalizedDeltaTime = GracePeriodEscalation

\* an escalation has just granted its grace period
C27_WitnessEscalation ==
  /\ op = "gameLoop"
  /\ difficultyLevel = 2
  /\ difficultyTimer = 0
  /\ gracePeriod = GracePeriodEscalation

\* C28: while no maze has been built, isValidMove returns true whatever the
\* position, direction and distance, and isEntityInValidPosition returns true
\* for every entity.
C28_ValidWithoutMaze ==
  (args.maze = NoMaze /\ op \in { "isValidMove", "isEntityInValidPosition" }) =>
    result.value = TRUE

\* without a maze isValidMove has accepted a move that it refuses once the
\* maze is built
C28_Witness ==
  /\ op = "isValidMove"
  /\ args.maze = NoMaze
  /\ result.value = TRUE
  /\ ~isValidMove(Maze, args.player.x, args.player.y,
                  result.direction[1], result.direction[2], result.distance)

\* without a maze isEntityInValidPosition has accepted a ghost that is out of
\* place once the maze is built
C28_WitnessEntity ==
  /\ op = "isEntityInValidPosition"
  /\ args.maze = NoMaze
  /\ result.entity > 0
  /\ result.value = TRUE
  /\ ~isEntityInValidPosition(Maze, args.ghosts[result.entity].x, args.ghosts[result.entity].y,
                              GhostWidth, GhostHeight)

\* the centre of the 12 px entity e is in a path cell of the grid of args.maze
CentreOnPath(e) ==
  LET col == GridIndex(e.x + (EntitySize \div 2), args.maze.offsetX, args.maze.cellSize)
      row == GridIndex(e.y + (EntitySize \div 2), args.maze.offsetY, args.maze.cellSize)
  IN  /\ row \in 0..(MazeRows - 1)
      /\ col \in 0..(MazeCols - 1)
      /\ args.maze.grid[row + 1][col + 1] = 0

\* the safe positions the call of op found: createEntities builds the maze
\* first when there is none
PositionsFound ==
  IF args.maze = Maze \/ (op = "createEntities" /\ args.maze = NoMaze) THEN MazePositions
  ELSE getMazePositions(args.maze)

\* e stands on a position of the safe-position list
AtSafePosition(e) ==
  LET found == PositionsFound
  IN  <<e.x, e.y>> \in { <<found[k].x, found[k].y>> : k \in 1..Len(found) }

\* the ghost g is parked off-screen, at (-100, -100) px
Parked(g) == g.x = -1000 /\ g.y = -1000

\* a sweep has run with a maze and a safe-position list that is not empty
SweepRan ==
  /\ op \in { "validateEntityPositions", "gameLoop", "increaseDifficulty" }
  /\ args.maze # NoMaze
  /\ Len(PositionsFound) > 0

\* C29: after a validation sweep with a maze and a safe-position list that is
\* not empty, the player's centre is on a path cell and every enemy's centre
\* is on a path cell or the enemy is parked off-screen; an entity whose centre
\* was in a wall cell or outside the grid stands on a safe position (or, an
\* enemy, is parked).
C29_SweepRepairs ==
  SweepRan =>
    /\ CentreOnPath(result.player)
    /\ ~CentreOnPath(args.player) => AtSafePosition(result.player)
    /\ \A i \in 1..Len(args.ghosts) :
         /\ CentreOnPath(result.ghosts[i]) \/ Parked(result.ghosts[i])
         /\ ~CentreOnPath(args.ghosts[i]) =>
              (AtSafePosition(result.ghosts[i]) \/ Parked(result.ghosts[i]))

\* validateEntityPositions has moved a player and two ghosts that were out of
\* place in the engine's maze to safe positions
C29_Witness ==
  /\ SweepRan
  /\ op = "validateEntityPositions"
  /\ args.maze = Maze
  /\ ~CentreOnPath(args.player)
  /\ ~CentreOnPath(args.ghosts[1]) /\ ~CentreOnPath(args.ghosts[2])
  /\ AtSafePosition(result.player)
  /\ AtSafePosition(result.ghosts[1]) /\ AtSafePosition(result.ghosts[2])

\* the in-frame sweep has moved a ghost that was out of place to a safe
\* position
C29_WitnessInFrame ==
  /\ SweepRan
  /\ op = "gameLoop"
  /\ ~CentreOnPath(args.ghosts[2])
  /\ AtSafePosition(result.ghosts[2])

\* validateEntityPositions has run out of safe positions and parked a ghost
C29_WitnessParked ==
  /\ SweepRan
  /\ op = "validateEntityPositions"
  /\ \E i \in 1..Len(args.ghosts) : ~Parked(args.ghosts[i]) /\ Parked(result.ghosts[i])

\* the entities of args that were out of place before ghost i was looked at
OutOfPlaceBefore(i) ==
  Cardinality({ j \in 1..(i - 1) : ~CentreOnPath(args.ghosts[j]) })
    + (IF CentreOnPath(args.player) THEN 0 ELSE 1)

\* validateEntityPositions found ghost i out of place with the list used up
NoPositionLeft(i) ==
  /\ op = "validateEntityPositions"
  /\ Len(PositionsFound) > 0
  /\ ~CentreOnPath(args.ghosts[i])
  /\ OutOfPlaceBefore(i) >= Len(PositionsFound)

\* C30 as stated: an entity that is to be placed when no safe position is
\* available (at creation, at an escalation that spawns, at a repair) is put
\* at the off-screen parking position.
C30_ParkedWhenNoPosition ==
  /\ (op = "createEntities" /\ Len(PositionsFound) = 0) =>
       /\ Parked(result.player)
       /\ \A i \in 1..Len(result.ghosts) : Parked(result.ghosts[i])
  /\ (op = "increaseDifficulty" /\ Len(PositionsFound) = 0
        /\ ShouldAddGhost(result.level, Len(args.ghosts))) =>
       /\ Len(result.ghosts) = Len(args.ghosts) + 1
       /\ Parked(result.ghosts[Len(result.ghosts)])
  /\ (op = "validateEntityPositions" /\ args.maze # NoMaze /\ Len(PositionsFound) = 0) =>
       /\ ~CentreOnPath(args.player) => Parked(result.player)
       /\ \A i \in 1..Len(args.ghosts) :
            ~CentreOnPath(args.ghosts[i]) => Parked(result.ghosts[i])
  /\ \A i \in 1..Len(args.ghosts) : NoPositionLeft(i) => Parked(result.ghosts[i])

\* C30, what the engine does when no safe position is available:
\* createEntities puts the player at the centre of the canvas and one enemy at
\* a quarter of its width and height; an escalation adds no enemy and moves
\* none; validateEntityPositions moves nothing when the list is empty, and
\* parks off-screen each out-of-place enemy it comes to after the list has
\* been used up; the in-frame sweep parks nothing.
C30_FallbackWhenNoPosition ==
  /\ (op = "createEntities" /\ Len(PositionsFound) = 0) =>
       /\ result.player = [ x |-> (CanvasWidth \div 2) - (PlayerWidth \div 2),
                            y |-> (CanvasHeight \div 2) - (PlayerHeight \div 2) ]
       /\ Len(result.ghosts) = 1
       /\ result.ghosts[1].x = CanvasWidth \div 4
       /\ result.ghosts[1].y = CanvasHeight \div 4
  /\ (op = "increaseDifficulty" /\ Len(PositionsFound) = 0) =>
       /\ result.player = args.player
       /\ Len(result.ghosts) = Len(args.ghosts)
       /\ \A i \in 1..Len(args.ghosts) :
            result.ghosts[i].x = args.ghosts[i].x /\ result.ghosts[i].y = args.ghosts[i].y
  /\ (op = "validateEntityPositions" /\ Len(PositionsFound) = 0) =>
       (result.player = args.player /\ result.ghosts = args.ghosts)
  /\ \A i \in 1..Len(args.ghosts) : NoPositionLeft(i) => Parked(result.ghosts[i])
  /\ (op = "gameLoop" /\ Len(PositionsFound) = 0) =>
       \A i \in 1..Len(args.ghosts) : Parked(result.ghosts[i]) => Parked(args.ghosts[i])

\* createEntities has found no safe position in a maze of walls and has put
\* the player at the centre of the canvas
C30_Witness ==
  /\ op = "createEntities"
  /\ Len(PositionsFound) = 0
  /\ ~Parked(result.player)
  /\ Len(result.ghosts) = 1

\* an escalation to an even level with room in the list has found no safe
\* position and added no enemy
C30_WitnessSpawn ==
  /\ op = "increaseDifficulty"
  /\ Len(PositionsFound) = 0
  /\ ShouldAddGhost(result.level, Len(args.ghosts))
  /\ Len(result.ghosts) = Len(args.ghosts)

\* validateEntityPositions has parked the fourth ghost after the player and a
\* ghost took the two positions of the pocket
C30_WitnessParked ==
  /\ NoPositionLeft(4)
  /\ ~Parked(args.ghosts[4])
  /\ Parked(result.ghosts[4])
  /\ AtSafePosition(result.player)

\* the box of the player's size at (x, y) is inside the canvas and none of
\* its 8 sampled points is in a wall cell: isValidMove accepts a move there
Open(x, y) ==
  /\ BoxInCanvas(x, y, PlayerWidth, PlayerHeight)
  /\ ~SampleInWall(x, y, PlayerWidth, PlayerHeight)

\* Player.update was given a diagonal direction with the engine present; its
\* X move is refused and its Y move, asked from the position that leaves, is
\* accepted
SlidesAlongY ==
  /\ op = "Player.update"
  /\ args.engine
  /\ args.direction[1] # 0 /\ args.direction[2] # 0
  /\ ~Open(StepX, args.p.y)
  /\ Open(args.p.x, StepY)

\* C31: in Player.update with a diagonal direction, when isValidMove refuses
\* the X move and accepts the Y move, x is unchanged and y advances by the
\* whole distance of the frame.
C31_SlidesAlongY ==
  SlidesAlongY => (result.x = args.p.x /\ result.y = StepY)

\* the player has slid along Y in a 16 ms update whose X move a wall refused
C31_Witness ==
  /\ SlidesAlongY
  /\ args.deltaTime = 16
  /\ SampleInWall(StepX, args.p.y, PlayerWidth, PlayerHeight)
  /\ result.x = args.p.x
  /\ result.y # args.p.y

\* ---------------------------------------------------------------------
\* the distance of the directly updated ghost's move
GhostStep == Distance(args.g.speed, args.deltaTime)

\* Ghost.update ran with the engine present; isValidMove accepted the move
\* and the ghost's centre, once moved, was not on a PATH cell
MoveOffPath ==
  /\ op = "Ghost.update"
  /\ args.engine
  /\ BoxInCanvas(args.g.x + args.g.dx * GhostStep, args.g.y + args.g.dy * GhostStep,
                 PlayerWidth, PlayerHeight)
  /\ ~SampleInWall(args.g.x + args.g.dx * GhostStep, args.g.y + args.g.dy * GhostStep,
                   PlayerWidth, PlayerHeight)
  /\ LET col == GridIndex(args.g.x + args.g.dx * GhostStep + (GhostWidth \div 2),
                          Maze.offsetX, Maze.cellSize)
         row == GridIndex(args.g.y + args.g.dy * GhostStep + (GhostHeight \div 2),
                          Maze.offsetY, Maze.cellSize)
     IN  \/ row \notin 0..(MazeRows - 1)
         \/ col \notin 0..(MazeCols - 1)
         \/ Maze.grid[row + 1][col + 1] # 0

\* the directions chooseNewDirection can give the ghost g
ChosenDirections(g) ==
  LET available == AvailableDirections(Maze, g)
  IN  IF Len(available) > 0
      THEN { available[i] : i \in 1..Len(available) }
      ELSE { PossibleDirections[i] : i \in 1..Len(PossibleDirections) }

CentreInPathCell(x, y, w, h) ==
  LET col == GridIndex(x + (w \div 2), Maze.offsetX, Maze.cellSize)
      row == GridIndex(y + (h \div 2), Maze.offsetY, Maze.cellSize)
  IN  /\ row \in 0..(MazeRows - 1)
      /\ col \in 0..(MazeCols - 1)
      /\ MazeGrid[row + 1][col + 1] = 0

\* ghost i is drawn inside the canvas
OnScreen(i) ==
  /\ ghosts[i].x + GhostWidth > 0
  /\ ghosts[i].y + GhostHeight > 0
  /\ ghosts[i].x < CanvasWidth
  /\ ghosts[i].y < CanvasHeight

\* C33: in a game whose entities were placed on safe positions, after every
\* frame (and every start) the centre of the player and of every on-screen
\* ghost is in a PATH cell of the maze.
C33_CentresOnPath ==
  /\ CentreInPathCell(player.x, player.y, PlayerWidth, PlayerHeight)
  /\ \A i \in 1..Len(ghosts) :
       OnScreen(i) => CentreInPathCell(ghosts[i].x, ghosts[i].y, GhostWidth, GhostHeight)

\* a ghost is against a wall: the box of its next 5 px reaches into it
AgainstWall(i) ==
  /\ OnScreen(i)
  /\ SampleInWall(ghosts[i].x + ghosts[i].dx * 50, ghosts[i].y + ghosts[i].dy * 50,
                  GhostWidth, GhostHeight)

\* frames have run in which the player walked along the wall it stands
\* against and a ghost turned away from its wall, and an escalation has
\* added a ghost
C33_Witness ==
  /\ op = "gameLoop"
  /\ frames >= 2
  /\ player.y = Maze.offsetY + Maze.cellSize
  /\ player.x # CheckpointPlayer.x
  /\ Len(ghosts) > InitialGhostCount
  /\ ~AgainstWall(2)

\* ---------------------------------------------------------------------
\* the cellSize and offsets initializeMaze derives from the canvas as it is
DerivedFromCanvas ==
  LET width == args.canvas.width * 10
      height == args.canvas.height * 10
      cellSize == (IF width < height THEN width ELSE height) \div 15
  IN  [ cellSize |-> cellSize,
        offsetX  |-> (width - MazeCols * cellSize) \div 2,
        offsetY  |-> (height - MazeRows * cellSize) \div 2 ]

\* C34 as stated: the cellSize and offsets a frame's spatial queries use are
\* the ones derived from the dimensions the canvas has in that frame.
C34_MazeOfCanvas ==
  op = "gameLoop" => result = DerivedFromCanvas

\* a frame after a resize has used the cellSize and offsets of the canvas
\* the maze was built for
C34_Witness ==
  /\ op = "gameLoop"
  /\ result # DerivedFromCanvas
  /\ result = [ cellSize |-> Maze.cellSize, offsetX |-> Maze.offsetX,
                offsetY |-> Maze.offsetY ]
  /\ args.canvas = [ width |-> 300, height |-> 225 ]

\* ---------------------------------------------------------------------
\* initialize() or restart() has returned and no frame has run since
JustStarted ==
  /\ op \in {"restart", "initialize"}
  /\ difficultyTimer = 0
  /\ lastFrameTime = 0 \/ starts > 0

\* C35: after createEntities and the validation pass that follows it in
\* initialize() and restart(), every ghost is at least 100 px from the player
\* and no two ghosts are at the same position.
C35_SpawnedApart ==
  JustStarted =>
    /\ \A i \in 1..Len(ghosts) :
         (ghosts[i].x - player.x) * (ghosts[i].x - player.x)
           + (ghosts[i].y - player.y) * (ghosts[i].y - player.y)
           >= ProximityThreshold * ProximityThreshold
    /\ \A i, j \in 1..Len(ghosts) :
         i # j => << ghosts[i].x, ghosts[i].y >> # << ghosts[j].x, ghosts[j].y >>

\* restart() has placed the player and four ghosts
C35_Witness ==
  /\ JustStarted
  /\ op = "restart"
  /\ starts > 0
  /\ Len(ghosts) = InitialGhostCount
  /\ [ x |-> player.x, y |-> player.y ] \in
       { [ x |-> MazePositions[k].x, y |-> MazePositions[k].y ] :
           k \in 1..Len(MazePositions) }

\* ---------------------------------------------------------------------
\* C36 as stated: at most one gameLoop callback is pending with the
\* scheduler; no step leaves a second one registered next to the first.
C36_OneFrameCallback ==
  [][ rafPending <= 1 => rafPending' <= 1 ]_vars

\* the switcher has started the maze game while its loop was running: two
\* gameLoop callbacks are pending on the one gameState
C36_Witness ==
  /\ op = "switchMultiverse"
  /\ args.currentEngine = "adventure"
  /\ starts > 0
  /\ isRunning
  /\ rafPending = 2

\* ---------------------------------------------------------------------
\* the speeds of the ghosts gs, in order
Speeds(gs) == [ i \in 1..Len(gs) |-> gs[i].speed ]

\* C37 as stated: once the collision is detected (gracePeriod is then 0, the
\* timer and the level are those the frame began with, the entities are where
\* the frame's updates left them), no frame callback changes the simulation
\* state before a restart: the remainder of the detecting frame and every
\* later callback leave the ghost count and speeds, difficultyLevel,
\* difficultyTimer and gracePeriod alone, and later callbacks the positions.
C37_FrozenFromCollision ==
  [][ (isGameOver' /\ ~Start) =>
        /\ Len(ghosts') = Len(ghosts)
        /\ Speeds(ghosts') = Speeds(ghosts)
        /\ difficultyLevel' = difficultyLevel
        /\ difficultyTimer' = difficultyTimer
        /\ gracePeriod' = gracePeriod
        /\ isGameOver => (player' = player /\ ghosts' = ghosts) ]_vars

\* what the engine does: no step that begins with the game over, other than
\* a restart or initialize, changes the simulation state
C37_FrozenAfterCollisionFrame ==
  [][ (isGameOver /\ ~Start) =>
        /\ player' = player
        /\ ghosts' = ghosts
        /\ difficultyLevel' = difficultyLevel
        /\ difficultyTimer' = difficultyTimer
        /\ gracePeriod' = gracePeriod ]_vars

\* the frame that detected the collision has gone on to raise the level: it
\* ends with the game over at level 2, the timer reset and a new grace period
C37_Witness ==
  /\ isGameOver
  /\ op = "gameLoop"
  /\ collidedGhost # 0
  /\ difficultyLevel = 2
  /\ difficultyTimer = 0
  /\ gracePeriod = GracePeriodEscalation

\* a callback has run on the game that was over and has left it as it was
C37_WitnessLaterCallback ==
  /\ isGameOver
  /\ op = "gameLoop"
  /\ collidedGhost = 0
  /\ ~rendered

\* ---------------------------------------------------------------------
\* the ghost of the run cannot take the step of a frame in its direction,
\* and can take it in another one
BlockedWithWayOut ==
  LET g == args.g
      distance == Distance(g.speed, MaxDeltaTime)
  IN  /\ \E pt \in SamplePoints(g.x + g.dx * distance, g.y + g.dy * distance,
                                 PlayerWidth, PlayerHeight) :
           IsWallPoint(DeadEndMaze, pt[1], pt[2])
      /\ \E i \in 1..Len(PossibleDirections) :
           \A pt \in SamplePoints(g.x + PossibleDirections[i][1] * distance,
                                   g.y + PossibleDirections[i][2] * distance,
                                   PlayerWidth, PlayerHeight) :
             ~IsWallPoint(DeadEndMaze, pt[1], pt[2])

\* C38: a ghost whose direction is blocked and which has a walkable
\* direction, be it only the reverse one, moves again: with fair values of
\* Math.random() the updates never leave the ghost stationary for ever.
C38_MovesAgain ==
  (BlockedWithWayOut /\ ~result.moved) ~> result.moved

\* an update has left the ghost in place at the end of a dead end, heading
\* into the wall, the reverse direction the only walkable one
C38_Witness ==
  /\ op = "Ghost.update"
  /\ ~result.moved
  /\ BlockedWithWayOut
  /\ args.g.dx = 1
  /\ Len(AvailableDirectionsWithReverse(DeadEndMaze, args.g)) = 1
  /\ AvailableDirections(DeadEndMaze, args.g) = << >>

\* ---------------------------------------------------------------------
\* the last event was the keydown of an arrow key, which set the direction
KeySetDirection ==
  /\ op = "keydown"
  /\ args.key \in { "ArrowUp", "ArrowDown", "ArrowLeft", "ArrowRight" }

\* C39 as stated: the deferred reset of touchend does not clear a direction
\* that a keydown set while the reset was pending, nor the direction of a new
\* touch that is down when it fires.
C39_ResetSparesNewInput ==
  [][ (op' = "reset" /\ (KeySetDirection \/ touchActive)) =>
        inputDirection' = inputDirection ]_vars

\* what the callback does: it leaves the direction alone while a touch is
\* down, and clears it otherwise
C39_ResetSparesActiveTouch ==
  [][ op' = "reset" =>
        inputDirection' = IF touchActive THEN inputDirection ELSE << 0, 0 >> ]_vars

\* a key has set the direction after the touch ended, with the reset of that
\* touch still pending: the callback will clear the direction of the held key
C39_Witness ==
  /\ KeySetDirection
  /\ inputDirection # << 0, 0 >>
  /\ ~touchActive
  /\ resetTimers > 0

\* ---------------------------------------------------------------------
\* C40 as stated: over every sequence of init, guesses and stop the strike
\* counter of the guessing game stays within 0..3, and the count 3 - strikes
\* of the strike display is never negative.
C40_StrikesInRange ==
  /\ args.strikes \in 0..3
  /\ 3 - args.strikes >= 0

\* a fourth wrong guess has been counted: the update of the strike display
\* threw and the page still shows three crosses
C40_Witness ==
  /\ op = "checkGuess"
  /\ args.strikes = 4
  /\ result.thrown
  /\ result.crosses = 3
  /\ result.circles = 0

\* a second init after a lost session found the three strikes still counted
C40_WitnessSecondInit ==
  /\ op = "init"
  /\ args.inits = 2
  /\ args.strikes = 3
  /\ result.crosses = 3

====
